---- MODULE Spec2Model ----
(***************************************************************************)
(* Interview-session state machine of the interview coach backend:         *)
(* CreateSession, GetCurrentPrompt, SubmitAnswer and GetSessionResult over *)
(* the in-memory session repository, with the OpenAI-backed coaching and   *)
(* transcription services as the sources of nondeterminism.                *)
(*                                                                         *)
(* Conventions                                                             *)
(*   - a nullable / optional value is a sequence of length <= 1:           *)
(*     Null (<<>>) is JS null or undefined, Some(v) (<<v>>) is the value;  *)
(*   - a JSON value produced by the language model is a tagged record      *)
(*     (JStr, JNull, JAbsent, JObj, JArr);                                 *)
(*   - a delay submitted by a client is a number of milliseconds, a delay  *)
(*     stored in a turn or a timing summary is a number of hundredths of   *)
(*     a second (the code rounds every delay it stores to 2 decimals).     *)
(***************************************************************************)
EXTENDS Integers, Sequences, FiniteSets, TLC

VARIABLES
    sessions,      \* InMemorySessionRepository.sessions: id -> Null | Some(session)
    created,       \* number of sessions created so far (source of fresh ids)
    last,          \* the last request that changed the repository: operation, session id,
                   \* the services it called and the value it returned
    feedbackCalls, \* id -> number of calls of generateFeedback made for the session
                   \* (counted in SpecFeedback only)
    inflight,      \* the sessions held by submissions that have read their session and
                   \* not saved it yet, as they will save them (SpecConcurrent only)
    submitted      \* id -> number of submissions to the session that succeeded
                   \* (counted in SpecSession and SpecLive only)

vars == <<sessions, created, last, feedbackCalls, inflight, submitted>>

-----------------------------------------------------------------------------
(* Bounds of the model *)

\* Sessions that may be created in one run.
MaxSessions == 1

\* Successful submissions (over all sessions) explored in one run.
MaxSubmits == 3

\* Largest questionCount, in absolute value, asked of CreateSession in SpecCreate.
MaxRequestedCount == 50

\* Longest list of turns given to computeTimingSummary in SpecTiming.
MaxTimingTurns == 2

\* Calls of generateFeedback explored for one session in SpecFeedback.
MaxFeedbackCalls == 2

\* Submissions that may be between their read and their save in SpecConcurrent.
MaxInflight == 3

\* Answers a session may hold in SpecConcurrent.
MaxConcurrentAnswers == 3

\* Longest lists of corrections and of tips given to generateFeedback in SpecCoach.
MaxReplyCorrections == 10
MaxReplyTips == 5

\* Successful submissions (over all sessions) explored in one run of SpecStore.
MaxStoreSubmits == 3

\* Successful submissions to one session counted in SpecSession and SpecLive:
\* one more than twice the questions of the longest session created there, so
\* that a session taking more than two submissions a question would show.
MaxAnswers == 7

-----------------------------------------------------------------------------
(* Optional values, strings *)

Null == <<>>
Some(v) == <<v>>
Val(o) == o[1]

\* String.prototype.trim, over the blank character the model's texts use.
RECURSIVE TrimStart(_)
TrimStart(s) ==
    IF Len(s) > 0 /\ SubSeq(s, 1, 1) = " " THEN TrimStart(SubSeq(s, 2, Len(s))) ELSE s

RECURSIVE TrimEnd(_)
TrimEnd(s) ==
    IF Len(s) > 0 /\ SubSeq(s, Len(s), Len(s)) = " "
    THEN TrimEnd(SubSeq(s, 1, Len(s) - 1))
    ELSE s

Trim(s) == TrimEnd(TrimStart(s))

\* JS truthiness of a string | null | undefined value.
Truthy(o) == o # Null /\ Val(o) # ""

-----------------------------------------------------------------------------
(* The question catalog *)

QUESTION_BANK ==
    << "Tell me about yourself and your current backend focus.",
       "Describe a challenging production incident you handled. What did you do?",
       "How would you design a URL shortener service?",
       "How do you ensure reliability in a distributed system?",
       "Explain the difference between horizontal and vertical scaling.",
       "How do you diagnose slow database queries in production?",
       "Describe a time you disagreed with a teammate and how you resolved it.",
       "What tradeoffs would you consider when introducing caching?",
       "How would you make an API backward compatible over time?",
       "Why are you interested in this role and what value would you bring?" >>

DefaultQuestionCount == 3

Max(a, b) == IF a >= b THEN a ELSE b
Min(a, b) == IF a <= b THEN a ELSE b

-----------------------------------------------------------------------------
(* The repository: whole-record reads and writes of structured clones *)

SessionIds == 1 .. (MaxSessions + 1)   \* the last id is issued in SpecStore only

\* structuredClone: a deep copy; values of the model are immutable, so the copy
\* is the value itself and no alias of a stored record ever escapes.
clone(value) == value

\* findById that reads the first entry of the map whatever the id asked for.
findById_FirstEntry(store, sessionId) ==
    IF store[1] # Null THEN clone(store[1]) ELSE Null

findById(store, sessionId) == IF store[sessionId] # Null THEN clone(store[sessionId]) ELSE Null

\* save that patches the stored session: a field that is null in the session
\* given is left as it is stored.
save_Patching(store, session) ==
    [store EXCEPT ![session.id] =
        IF @ = Null THEN Some(clone(session))
        ELSE Some([clone(session) EXCEPT
                     !.pendingFollowUpQuestion =
                         IF @ = Null THEN Val(store[session.id]).pendingFollowUpQuestion ELSE @,
                     !.result = IF @ = Null THEN Val(store[session.id]).result ELSE @])]

save_Whole(store, session) ==
    [id \in SessionIds |-> IF id = session.id THEN Some(clone(session)) ELSE Null]

save(store, session) == [store EXCEPT ![session.id] = Some(clone(session))]

create(store, session) == [store EXCEPT ![session.id] = Some(clone(session))]

-----------------------------------------------------------------------------
(* Outcomes of a request *)

NotFoundError(message) == [ok |-> FALSE, error |-> "NotFoundError", message |-> message]
ValidationError(message) == [ok |-> FALSE, error |-> "ValidationError", message |-> message]
\* An error thrown by an OpenAI service: neither caught nor translated.
ServiceError(message) == [ok |-> FALSE, error |-> "Error", message |-> message]
Ok(value) == [ok |-> TRUE, value |-> value]

-----------------------------------------------------------------------------
(* CreateSession *)

QuestionCountInputs == {Null, Some(0), Some(2)}
AllowFollowUpsInputs == {Null, Some(TRUE), Some(FALSE)}

Slice(seq, n) == SubSeq(seq, 1, Min(n, Len(seq)))

\* ClampQuestionCount without Math.max(1, ...).
ClampQuestionCount_NoFloor(requested) ==
    Min(IF requested = Null THEN DefaultQuestionCount ELSE Val(requested), Len(QUESTION_BANK))

ClampQuestionCount(requested) ==
    Max(1, Min(IF requested = Null THEN DefaultQuestionCount ELSE Val(requested),
               Len(QUESTION_BANK)))

NewSession_FollowUpsOnRequest(id, input) ==
    [ id |-> id,
      createdAt |-> id,
      status |-> "in_progress",
      allowFollowUps |-> IF input.allowFollowUps = Null THEN FALSE ELSE Val(input.allowFollowUps),
      questions |-> Slice(QUESTION_BANK, ClampQuestionCount(input.questionCount)),
      questionIndex |-> 0,
      awaitingFollowUp |-> FALSE,
      pendingFollowUpQuestion |-> Null,
      turns |-> <<>>,
      result |-> Null ]

NewSession(id, input) ==
    [ id |-> id,
      createdAt |-> id,
      status |-> "in_progress",
      allowFollowUps |-> IF input.allowFollowUps = Null THEN TRUE ELSE Val(input.allowFollowUps),
      questions |-> Slice(QUESTION_BANK, ClampQuestionCount(input.questionCount)),
      questionIndex |-> 0,
      awaitingFollowUp |-> FALSE,
      pendingFollowUpQuestion |-> Null,
      turns |-> <<>>,
      result |-> Null ]

CreateSession ==
    /\ created < MaxSessions
    /\ \E questionCount \in QuestionCountInputs, allowFollowUps \in AllowFollowUpsInputs :
          LET input == [questionCount |-> questionCount, allowFollowUps |-> allowFollowUps]
              session == NewSession(created + 1, input)
          IN /\ sessions' = create(sessions, session)
             /\ created' = created + 1
             /\ last' = [ op |-> "CreateSession", sessionId |-> session.id,
                          calls |-> <<>>, outcome |-> Ok(session) ]
             /\ UNCHANGED <<feedbackCalls, inflight, submitted>>

\* CreateSession over the integers a client may ask for, with the request kept
\* next to the session it made.
RequestedCounts == {Null} \cup {Some(n) : n \in -MaxRequestedCount .. MaxRequestedCount}

CreateSessionRequested ==
    /\ created < MaxSessions
    /\ \E questionCount \in RequestedCounts, allowFollowUps \in AllowFollowUpsInputs :
          LET input == [questionCount |-> questionCount, allowFollowUps |-> allowFollowUps]
              session == NewSession(created + 1, input)
          IN /\ sessions' = create(sessions, session)
             /\ created' = created + 1
             /\ last' = [ op |-> "CreateSession", sessionId |-> session.id,
                          calls |-> <<>>, outcome |-> Ok(session), input |-> input ]
             /\ UNCHANGED <<feedbackCalls, inflight, submitted>>

-----------------------------------------------------------------------------
(* GetCurrentPrompt *)

\* AfterRead of a use case that tidies the session it read and saves it.
AfterRead_Tidying(store, found) ==
    IF found = Null THEN store
    ELSE save(store, [Val(found) EXCEPT !.awaitingFollowUp = FALSE,
                                        !.pendingFollowUpQuestion = Null])

\* The repository after GetCurrentPrompt or GetSessionResult, given what
\* findById handed out: the use case assigns to no field of the session and
\* calls neither save nor create.
AfterRead(store, found) == store

\* GetCurrentPromptExecute without the branch for a pending follow-up.
GetCurrentPromptExecute_NoFollowUp(store, sessionId) ==
    LET found == findById(store, sessionId) IN
    IF found = Null THEN NotFoundError("Session not found.")
    ELSE LET session == Val(found) IN
         IF session.status = "completed"
         THEN Ok([ sessionId |-> session.id, status |-> session.status,
                   prompt |-> Null, promptType |-> "completed",
                   questionNumber |-> Len(session.questions),
                   totalQuestions |-> Len(session.questions) ])
         ELSE Ok([ sessionId |-> session.id, status |-> session.status,
                   prompt |-> IF session.questionIndex < Len(session.questions)
                              THEN Some(session.questions[session.questionIndex + 1])
                              ELSE Null,
                   promptType |-> "question",
                   questionNumber |-> session.questionIndex + 1,
                   totalQuestions |-> Len(session.questions) ])

GetCurrentPromptExecute(store, sessionId) ==
    LET found == findById(store, sessionId) IN
    IF found = Null THEN NotFoundError("Session not found.")
    ELSE LET session == Val(found) IN
         IF session.status = "completed"
         THEN Ok([ sessionId |-> session.id, status |-> session.status,
                   prompt |-> Null, promptType |-> "completed",
                   questionNumber |-> Len(session.questions),
                   totalQuestions |-> Len(session.questions) ])
         ELSE IF session.awaitingFollowUp /\ Truthy(session.pendingFollowUpQuestion)
         THEN Ok([ sessionId |-> session.id, status |-> session.status,
                   prompt |-> session.pendingFollowUpQuestion, promptType |-> "follow_up",
                   questionNumber |-> session.questionIndex + 1,
                   totalQuestions |-> Len(session.questions) ])
         ELSE Ok([ sessionId |-> session.id, status |-> session.status,
                   prompt |-> IF session.questionIndex < Len(session.questions)
                              THEN Some(session.questions[session.questionIndex + 1])
                              ELSE Null,
                   promptType |-> "question",
                   questionNumber |-> session.questionIndex + 1,
                   totalQuestions |-> Len(session.questions) ])

GetCurrentPrompt ==
    \E sessionId \in SessionIds :
       /\ GetCurrentPromptExecute(sessions, sessionId).ok \in BOOLEAN
       /\ sessions' = AfterRead(sessions, findById(sessions, sessionId))
       /\ UNCHANGED <<created, last, feedbackCalls, inflight, submitted>>

-----------------------------------------------------------------------------
(* GetSessionResult *)

GetSessionResultExecute(store, sessionId) ==
    LET found == findById(store, sessionId) IN
    IF found = Null THEN NotFoundError("Session not found.")
    ELSE LET session == Val(found) IN
         Ok([sessionId |-> session.id, status |-> session.status, result |-> session.result])

GetSessionResult ==
    \E sessionId \in SessionIds :
       /\ GetSessionResultExecute(sessions, sessionId).ok \in BOOLEAN
       /\ sessions' = AfterRead(sessions, findById(sessions, sessionId))
       /\ UNCHANGED <<created, last, feedbackCalls, inflight, submitted>>

-----------------------------------------------------------------------------
(* JSON values returned by the language model *)

JStr(s) == [t |-> "string", v |-> s]
JNum(n) == [t |-> "number", v |-> n]
JBool(b) == [t |-> "boolean", v |-> b]
JNull == [t |-> "null"]
JAbsent == [t |-> "undefined"]
JObj(fields) == [t |-> "object", v |-> fields]
JArr(items) == [t |-> "array", v |-> items]

\* obj.name of a parsed JSON object: undefined when the key is missing.
Field(obj, name) == IF name \in DOMAIN obj THEN obj[name] ELSE JAbsent

\* x is falsy: null, undefined, '', 0 and false.
Falsy(x) ==
    \/ x.t \in {"null", "undefined"}
    \/ x.t = "string" /\ x.v = ""
    \/ x.t = "number" /\ x.v = 0
    \/ x.t = "boolean" /\ ~x.v

RECURSIVE ToText(_)
RECURSIVE JoinItems(_)
\* Array.prototype.join(','): null and undefined items give no text.
JoinItems(items) ==
    IF items = <<>> THEN ""
    ELSE LET head == IF Head(items).t \in {"null", "undefined"} THEN ""
                     ELSE ToText(Head(items))
         IN IF Len(items) = 1 THEN head ELSE head \o "," \o JoinItems(Tail(items))

\* String(x) of a value JSON.parse gives (the model's numbers are integers,
\* and its objects have no toString or valueOf key of their own).
ToText(x) ==
    CASE x.t = "string" -> x.v
      [] x.t = "number" -> ToString(x.v)
      [] x.t = "boolean" -> (IF x.v THEN "true" ELSE "false")
      [] x.t = "null" -> "null"
      [] x.t = "undefined" -> "undefined"
      [] x.t = "array" -> JoinItems(x.v)
      [] OTHER -> "[object Object]"

\* String(x || ''): '' for a falsy value, the text of the value otherwise.
StringOrEmpty(x) == IF Falsy(x) THEN "" ELSE ToText(x)

\* The call to the OpenAI API failed (network, quota, model error): it throws.
ApiFailure == [failed |-> TRUE]
ApiResult(content) == [failed |-> FALSE, content |-> content]

\* A completion's message content: missing, text that is no JSON, or JSON text
\* (held as the object JSON.parse gives).
NotJson == [parses |-> FALSE]
Json(fields) == [parses |-> TRUE, fields |-> fields]

safeJson(content) ==
    IF content # Null /\ Val(content).parses THEN Val(content).fields ELSE <<>>

-----------------------------------------------------------------------------
(* OpenAISpeechToTextService *)

RECURSIVE JoinNonEmpty(_)
\* segments.map(trimmed text or '').filter(Boolean).join(' ')
JoinNonEmpty(segments) ==
    IF segments = <<>> THEN ""
    ELSE LET head == IF Head(segments) = Null THEN "" ELSE Trim(Val(Head(segments)))
             rest == JoinNonEmpty(Tail(segments))
         IN IF head = "" THEN rest
            ELSE IF rest = "" THEN head
            ELSE head \o " " \o rest

\* transcript: Null (no object) or Some([text: Null | Some(string),
\*                                      segments: Null | Some(<<Null | Some(string)>>)])
extractTranscriptText(transcript) ==
    IF transcript = Null THEN ""
    ELSE LET t == Val(transcript) IN
         IF t.text # Null /\ Trim(Val(t.text)) # "" THEN Trim(Val(t.text))
         ELSE IF t.segments # Null /\ Trim(JoinNonEmpty(Val(t.segments))) # ""
         THEN Trim(JoinNonEmpty(Val(t.segments)))
         ELSE ""

transcribe(params, api) ==
    IF api.failed THEN ServiceError("transcription request failed")
    ELSE LET text == extractTranscriptText(api.content) IN
         IF text = "" THEN ServiceError("empty transcription from STT") ELSE Ok(text)

TranscriptionApiResults ==
    { ApiFailure,
      ApiResult(Some([text |-> Some("  "), segments |-> Null])),
      ApiResult(Some([text |-> Null,
                      segments |-> Some(<<Some(" spoken"), Null, Some("  "), Some("answer ")>>)])) }

-----------------------------------------------------------------------------
(* OpenAIInterviewCoachService *)

generateInterviewerReply(params, api) ==
    IF api.failed THEN ServiceError("chat completion request failed")
    ELSE LET parsed == safeJson(api.content)
             replyText == Field(parsed, "replyText")
             followUpQuestion == Field(parsed, "followUpQuestion")
         IN Ok([ replyText |->
                    IF replyText.t = "string" THEN replyText.v
                    ELSE "Thanks, that helps me understand your approach.",
                 followUpQuestion |->
                    IF followUpQuestion.t = "string" /\ Trim(followUpQuestion.v) # ""
                    THEN Some(Trim(followUpQuestion.v))
                    ELSE Null ])

InterviewerReplyApiResults ==
    { ApiFailure,
      ApiResult(Some(NotJson)),
      ApiResult(Some(Json([replyText |-> JStr("Good answer."), followUpQuestion |-> JStr("   ")]))),
      ApiResult(Some(Json([replyText |-> JStr("Interesting."),
                           followUpQuestion |-> JStr(" Can you give an example? ")]))) }

generateFollowUpClose(params, api) ==
    IF api.failed THEN ServiceError("chat completion request failed")
    ELSE IF api.content # Null /\ Trim(Val(api.content)) # ""
    THEN Ok(Trim(Val(api.content)))
    ELSE Ok("Thanks for clarifying.")

FollowUpCloseApiResults == {ApiFailure, ApiResult(Null), ApiResult(Some(" Thanks, that is clear. "))}

\* .filter(item is an object).map(trimmed fields).filter(all three non-empty)
RECURSIVE FilterCorrections(_)
FilterCorrections(items) ==
    IF items = <<>> THEN <<>>
    ELSE LET item == Head(items)
             rest == FilterCorrections(Tail(items))
         IN IF item.t \notin {"object", "array"} THEN rest
            ELSE LET valueItem == IF item.t = "object" THEN item.v ELSE <<>>
                     mapped == [ original |-> Trim(StringOrEmpty(Field(valueItem, "original"))),
                                 corrected |-> Trim(StringOrEmpty(Field(valueItem, "corrected"))),
                                 reason |-> Trim(StringOrEmpty(Field(valueItem, "reason"))) ]
                 IN IF mapped.original # "" /\ mapped.corrected # "" /\ mapped.reason # ""
                    THEN <<mapped>> \o rest
                    ELSE rest

MaxCorrections == 8

\* normalizeCorrections without its slice(0, 8).
normalizeCorrections_Unbounded(value) ==
    IF value.t # "array" THEN <<>> ELSE FilterCorrections(value.v)

normalizeCorrections(value) ==
    IF value.t # "array" THEN <<>>
    ELSE LET kept == FilterCorrections(value.v) IN SubSeq(kept, 1, Min(MaxCorrections, Len(kept)))

normalizeImprovedAnswer(value) ==
    IF value.t # "object" THEN [question |-> "", answer |-> ""]
    ELSE [ question |-> Trim(StringOrEmpty(Field(value.v, "question"))),
           answer |-> Trim(StringOrEmpty(Field(value.v, "answer"))) ]

\* .map(trimmed text).filter(Boolean)
RECURSIVE FilterTips(_)
FilterTips(items) ==
    IF items = <<>> THEN <<>>
    ELSE LET tip == Trim(StringOrEmpty(Head(items)))
             rest == FilterTips(Tail(items))
         IN IF tip # "" THEN <<tip>> \o rest ELSE rest

MaxTips == 3

normalizeTips(value) ==
    IF value.t # "array" THEN <<>>
    ELSE LET kept == FilterTips(value.v) IN SubSeq(kept, 1, Min(MaxTips, Len(kept)))

\* The entry in a position of the corrections array of a reply: one that
\* normalizeCorrections keeps (its corrected a number in even positions), or
\* one it drops: a text, null, an object with a blank field, an object with a
\* field missing, an array, an object with falsy fields.
CorrectionItem(position, valid) ==
    IF valid
    THEN JObj([ original |-> JStr(" said " \o ToString(position) \o " "),
                corrected |-> IF position % 2 = 0 THEN JNum(position)
                              ELSE JStr("say " \o ToString(position)),
                reason |-> JStr("reason " \o ToString(position)) ])
    ELSE CASE position % 6 = 0 -> JStr("not an object")
           [] position % 6 = 1 -> JNull
           [] position % 6 = 2 -> JObj([ original |-> JStr("he go"), corrected |-> JStr("  "),
                                         reason |-> JStr("tense") ])
           [] position % 6 = 3 -> JObj([original |-> JStr("he go"), corrected |-> JStr("he goes")])
           [] position % 6 = 4 -> JArr(<<JStr("he go"), JStr("he goes"), JStr("tense")>>)
           [] OTHER -> JObj([ original |-> JNum(0), corrected |-> JBool(FALSE),
                              reason |-> JStr("tense") ])

CorrectionItems(count, valid) ==
    [position \in 1 .. count |-> CorrectionItem(position, position \in valid)]

\* The entry in a position of the interviewTips array of a reply: one that
\* normalizeTips keeps (a text, a number, an object), or one it drops: null, a
\* blank text, 0, false, an empty array.
TipItem(position, valid) ==
    IF valid
    THEN CASE position % 3 = 0 -> JNum(position)
           [] position % 3 = 1 -> JStr(" tip " \o ToString(position) \o " ")
           [] OTHER -> JObj([text |-> JStr("tip")])
    ELSE CASE position % 5 = 0 -> JNull
           [] position % 5 = 1 -> JStr("   ")
           [] position % 5 = 2 -> JNum(0)
           [] position % 5 = 3 -> JBool(FALSE)
           [] OTHER -> JArr(<<>>)

TipItems(count, valid) == [position \in 1 .. count |-> TipItem(position, position \in valid)]

\* The JSON text of a reply with the given corrections and interviewTips.
FeedbackReply(corrections, interviewTips) ==
    ApiResult(Some(Json(
       [ timingSummary |-> JObj([totalTurns |-> JStr("99")]),
         corrections |-> corrections,
         improvedBestAnswer |-> JObj([question |-> JStr("Q"), answer |-> JStr(" A ")]),
         interviewTips |-> interviewTips ])))

\* A failure, no content, and a reply longer than asked for: 11 corrections,
\* 2 of them malformed, and 5 tips, 1 of them blank.
FeedbackApiResults ==
    { ApiFailure,
      ApiResult(Null),
      FeedbackReply(JArr(CorrectionItems(11, (1 .. 11) \ {2, 6})),
                    JArr(TipItems(5, (1 .. 5) \ {1}))) }

\* corrections, improvedBestAnswer and interviewTips as generateFeedback
\* returns them: what the normalizers make of the parsed content.
NormalizedFeedback(api) ==
    LET parsed == IF api.failed THEN <<>> ELSE safeJson(api.content) IN
    [ corrections |-> normalizeCorrections(Field(parsed, "corrections")),
      improvedBestAnswer |-> normalizeImprovedAnswer(Field(parsed, "improvedBestAnswer")),
      interviewTips |-> normalizeTips(Field(parsed, "interviewTips")) ]

\* generateFeedback, given what the normalizers make of the content.
FeedbackOf(params, api, normalized) ==
    IF api.failed THEN ServiceError("chat completion request failed")
    ELSE Ok([ timingSummary |-> params.timingSummary,
              corrections |-> normalized.corrections,
              improvedBestAnswer |-> normalized.improvedBestAnswer,
              interviewTips |-> normalized.interviewTips ])

generateFeedback(params, api) == FeedbackOf(params, api, NormalizedFeedback(api))

\* The replies sessions are completed with, each with its NormalizedFeedback,
\* worked out once for all the calls that receive it.
NormalizedReplies ==
    {[api |-> api, normalized |-> NormalizedFeedback(api)] : api \in FeedbackApiResults}

-----------------------------------------------------------------------------
(* computeTimingSummary *)

\* Number(x.toFixed(2)) of a quotient x = a / b that is exactly representable
\* or away from a tie, in hundredths when a is in hundredths (b = 1 .. ) or in
\* thousandths (b = 10): the nearest integer, the larger one on a tie.
RoundDiv(a, b) == (2 * a + b) \div (2 * b)

RECURSIVE FlattenDelays(_)
FlattenDelays(turns) ==
    IF turns = <<>> THEN <<>>
    ELSE LET turn == Head(turns)
             items == IF turn.followUpResponseDelaySec # Null
                      THEN <<turn.mainResponseDelaySec, Val(turn.followUpResponseDelaySec)>>
                      ELSE <<turn.mainResponseDelaySec>>
         IN items \o FlattenDelays(Tail(turns))

RECURSIVE SumSeq(_)
SumSeq(seq) == IF seq = <<>> THEN 0 ELSE Head(seq) + SumSeq(Tail(seq))

LongPauseThreshold == 400

\* Whether the decimal quotient sum / count lies halfway between two integers.
Halfway(sum, count) == (2 * sum) % (2 * count) = count

\* Number((delays.reduce((a, b) => a + b, 0) / delays.length).toFixed(2)), in
\* hundredths, for the lists of delays (in hundredths) of the model whose
\* decimal mean is halfway between two hundredths. There toFixed goes by the
\* binary64 quotient of the binary64 sum:
\*   (0.01 + 0.02) / 2 and (0.02 + 0.01) / 2 are 0.01499999999999999944...;
\*   (0.12 + 0.13) / 2 is 0.125 exactly, and toFixed takes the larger;
\*   (0.01 + 0.01 + 0.01 + 0.03) / 4 is 0.01499999999999999944... while
\*   (0.01 + 0.01 + 0.03 + 0.01) / 4 is 0.01500000000000000118....
HalfwayMeans ==
    <<1, 2>> :> 1 @@ <<2, 1>> :> 1 @@ <<12, 13>> :> 13
    @@ <<1, 1, 1, 3>> :> 1 @@ <<1, 1, 3, 1>> :> 2

\* avgResponseDelaySec of a non-empty list of delays. Away from a tie the
\* binary quotient is on the same side as the decimal one; no list of the model
\* outside HalfwayMeans has its mean at a tie.
Average(delays) ==
    IF Halfway(SumSeq(delays), Len(delays)) THEN HalfwayMeans[delays]
    ELSE RoundDiv(SumSeq(delays), Len(delays))

\* computeTimingSummary that also counts a delay of exactly 4 seconds as a long pause.
computeTimingSummary_FromFour(turns) ==
    LET delays == FlattenDelays(turns) IN
    [ avgResponseDelaySec |-> IF Len(delays) # 0 THEN Average(delays) ELSE 0,
      longPausesCount |-> Cardinality({i \in 1 .. Len(delays) : delays[i] >= LongPauseThreshold}),
      totalTurns |-> Len(delays) ]

computeTimingSummary(turns) ==
    LET delays == FlattenDelays(turns) IN
    [ avgResponseDelaySec |-> IF Len(delays) # 0 THEN Average(delays) ELSE 0,
      longPausesCount |-> Cardinality({i \in 1 .. Len(delays) : delays[i] > LongPauseThreshold}),
      totalTurns |-> Len(delays) ]

\* Turns as computeTimingSummary may be given them: delays of 1, 2, 4, 4.04 and
\* 5 seconds, with and without a follow-up delay.
TimingDelays == {100, 200, 400, 404, 500}

TimingTurn(mainResponseDelaySec, followUpResponseDelaySec) ==
    [ question |-> QUESTION_BANK[1],
      answer |-> "typed answer",
      followUpQuestion |-> IF followUpResponseDelaySec = Null THEN Null
                           ELSE Some("Can you give an example?"),
      followUpAnswer |-> IF followUpResponseDelaySec = Null THEN Null
                         ELSE Some("typed answer"),
      mainResponseDelaySec |-> mainResponseDelaySec,
      followUpResponseDelaySec |-> followUpResponseDelaySec ]

TimingTurns ==
    { TimingTurn(main, followUp) :
        main \in TimingDelays, followUp \in {Null} \cup {Some(d) : d \in TimingDelays} }

TimingInputs == UNION { [1 .. n -> TimingTurns] : n \in 0 .. MaxTimingTurns }

\* Turns whose delays have their mean halfway between two hundredths.
HalfwayInputs ==
    { <<TimingTurn(1, Some(2))>>,
      <<TimingTurn(2, Null), TimingTurn(1, Null)>>,
      <<TimingTurn(12, Some(13))>>,
      <<TimingTurn(1, Some(1)), TimingTurn(1, Some(3))>>,
      <<TimingTurn(1, Some(1)), TimingTurn(3, Some(1))>> }

\* One call of computeTimingSummary, made on a server that has served nothing yet.
ComputeTimingSummary ==
    /\ last.op = "none"
    /\ \E turns \in TimingInputs \cup HalfwayInputs :
          last' = [ op |-> "computeTimingSummary", sessionId |-> 0, calls |-> <<>>,
                    outcome |-> Ok(computeTimingSummary(turns)), input |-> turns ]
    /\ UNCHANGED <<sessions, created, feedbackCalls, inflight, submitted>>

-----------------------------------------------------------------------------
(* SubmitAnswer *)

\* A number given by the client: not finite (NaN, Infinity) or a count of milliseconds.
NotFinite == [finite |-> FALSE]
Millis(ms) == [finite |-> TRUE, ms |-> ms]

\* The request bodies submitted: SubmitAnswerInput without its sessionId.
Body(answerText, audioBase64, mimeType, responseDelaySec) ==
    [ answerText |-> answerText, audioBase64 |-> audioBase64,
      mimeType |-> mimeType, responseDelaySec |-> responseDelaySec ]

SubmitAnswerBodies ==
    { \* a typed answer with no delay (a typed answer wins over audio)
      Body(Some(" typed answer "), Some("aGVsbG8="), Null, Null),
      \* a spoken answer after a long pause (a blank text does not count)
      Body(Some("   "), Some("aGVsbG8="), Some(" audio/webm "), Some(Millis(5996))),
      \* no usable content: nothing, an empty payload, a payload with no data
      Body(Null, Null, Null, Null),
      Body(Some("   "), Some(""), Null, Some(Millis(5996))),
      Body(Null, Some("===="), Null, Null),
      \* a delay that is negative or no number
      Body(Some(" typed answer "), Null, Null, Some(Millis(-1000))),
      Body(Null, Some("aGVsbG8="), Null, Some(NotFinite)) }

\* The delays of the model that lie halfway between two hundredths and whose
\* binary64 value, the number the server is given, is below the decimal one:
\* 1.005 is 1.00499999999999989... and 4.005 is 4.00499999999999989...; 0.875
\* is exact and 0.115 is 0.115000000000000004996....
MillisBelowTheirDecimal == {1005, 4005}

\* Number(value.toFixed(2)), in hundredths, of a delay of ms thousandths: the
\* hundredth nearest to the binary value, the larger one when that value is
\* exactly halfway.
toFixed(ms) == IF ms \in MillisBelowTheirDecimal THEN ms \div 10 ELSE RoundDiv(ms, 10)

\* normalizeDelay that takes a negative delay for no delay.
normalizeDelay_Clamping(value) ==
    IF value = Null THEN Ok(0)
    ELSE IF ~Val(value).finite
    THEN ValidationError("responseDelaySec must be a non-negative number.")
    ELSE IF Val(value).ms < 0 THEN Ok(0)
    ELSE Ok(toFixed(Val(value).ms))

normalizeDelay(value) ==
    IF value = Null THEN Ok(0)
    ELSE IF ~Val(value).finite \/ Val(value).ms < 0
    THEN ValidationError("responseDelaySec must be a non-negative number.")
    ELSE Ok(toFixed(Val(value).ms))

Base64Alphabet ==
    { "A", "B", "C", "D", "E", "F", "G", "H", "I", "J", "K", "L", "M",
      "N", "O", "P", "Q", "R", "S", "T", "U", "V", "W", "X", "Y", "Z",
      "a", "b", "c", "d", "e", "f", "g", "h", "i", "j", "k", "l", "m",
      "n", "o", "p", "q", "r", "s", "t", "u", "v", "w", "x", "y", "z",
      "0", "1", "2", "3", "4", "5", "6", "7", "8", "9", "+", "/", "-", "_" }

RECURSIVE Base64Digits(_)
\* The digits Buffer.from(text, 'base64') decodes: it stops at the first '='
\* and skips every character outside the alphabet.
Base64Digits(text) ==
    IF Len(text) = 0 \/ SubSeq(text, 1, 1) = "=" THEN 0
    ELSE (IF SubSeq(text, 1, 1) \in Base64Alphabet THEN 1 ELSE 0)
         + Base64Digits(SubSeq(text, 2, Len(text)))

\* Length in bytes of Buffer.from(text, 'base64'): 6 bits a digit, whole bytes only.
DecodedLength(text) == (Base64Digits(text) * 3) \div 4

\* A call to a service and what it returned or threw.
Call(service, returned) == [service |-> service, returned |-> returned]

\* What the SpeechToTextService the use case was built with may do when it is
\* called: what the OpenAI service does with each answer of the transcription
\* API, and, for any other implementation of the interface, a blank text.
SpeechToTextServiceResults(params) ==
    {transcribe(params, api) : api \in TranscriptionApiResults} \cup {Ok("  ")}

\* BlankTranscript with the test left out.
BlankTranscript_Never(transcript) == FALSE

\* !transcript.trim()
BlankTranscript(transcript) == Trim(transcript) = ""

\* The outcomes of resolveTranscript: {[outcome, calls]}, one per result of
\* the speech-to-text service when it is called.
resolveTranscript(input) ==
    IF Truthy(input.answerText) /\ Trim(Val(input.answerText)) # ""
    THEN {[outcome |-> Ok(Trim(Val(input.answerText))), calls |-> <<>>]}
    ELSE IF ~Truthy(input.audioBase64)
    THEN {[outcome |-> ValidationError("Provide either answerText or audioBase64."),
           calls |-> <<>>]}
    ELSE LET mimeType == IF Truthy(input.mimeType) /\ Trim(Val(input.mimeType)) # ""
                         THEN Trim(Val(input.mimeType))
                         ELSE "audio/wav"
             audioLength == DecodedLength(Val(input.audioBase64))
             params == [audioLength |-> audioLength, mimeType |-> mimeType]
         IN IF audioLength = 0
            THEN {[outcome |-> ValidationError("Decoded audio payload is empty."),
                   calls |-> <<>>]}
            ELSE { LET calls == <<Call("transcribe", transcript)>>
                   IN IF ~transcript.ok THEN [outcome |-> transcript, calls |-> calls]
                      ELSE IF BlankTranscript(transcript.value)
                      THEN [outcome |-> ValidationError("Transcription returned empty text."),
                            calls |-> calls]
                      ELSE [outcome |-> Ok(Trim(transcript.value)), calls |-> calls]
                   : transcript \in SpeechToTextServiceResults(params) }

\* IsFinished with the comparison off by one: the session never finishes.
IsFinished_OffByOne(session) == ~(session.questionIndex <= Len(session.questions))

\* IsFinished that holds after every question.
IsFinished_Always(session) == TRUE

\* session.questionIndex < session.questions.length is false
IsFinished(session) == ~(session.questionIndex < Len(session.questions))

\* Complete without the assignment to session.status.
Complete_ResultOnly(session, result) == [session EXCEPT !.result = Some(result)]

\* session.result = {...}; session.status = 'completed'
Complete(session, result) ==
    [session EXCEPT !.result = Some(result), !.status = "completed"]

\* A call to a service with what it was given and what it returned or threw.
CallWith(service, params, returned) ==
    [service |-> service, params |-> params, returned |-> returned]

\* FeedbackParams that numbers the turns from 0.
FeedbackParams_NumberedFromZero(session) ==
    [ timingSummary |-> computeTimingSummary(session.turns),
      transcript |-> [ index \in 1 .. Len(session.turns) |->
                         [ questionNumber |-> index - 1,
                           question |-> session.turns[index].question,
                           answer |-> session.turns[index].answer,
                           followUpQuestion |-> session.turns[index].followUpQuestion,
                           followUpAnswer |-> session.turns[index].followUpAnswer ] ] ]

\* { timingSummary, transcript }: what generateFeedback is given (lines 187-196).
FeedbackParams(session) ==
    [ timingSummary |-> computeTimingSummary(session.turns),
      transcript |-> [ index \in 1 .. Len(session.turns) |->
                         [ questionNumber |-> index,
                           question |-> session.turns[index].question,
                           answer |-> session.turns[index].answer,
                           followUpQuestion |-> session.turns[index].followUpQuestion,
                           followUpAnswer |-> session.turns[index].followUpAnswer ] ] ]

\* A feedback as an InterviewCoachService other than the OpenAI one may return
\* it: with a timing summary of its own making.
ForeignFeedback ==
    [ timingSummary |-> [avgResponseDelaySec |-> 0, longPausesCount |-> 0, totalTurns |-> 0],
      corrections |-> <<>>,
      improvedBestAnswer |-> [question |-> "", answer |-> ""],
      interviewTips |-> <<>> ]

\* What the InterviewCoachService the use case was built with may do when
\* generateFeedback is called: what the OpenAI service does with each answer
\* of the completion API, and, for any other implementation of the interface,
\* a feedback that does not repeat the timing summary it was given.
InterviewCoachFeedbackResults(params) ==
    {FeedbackOf(params, reply.api, reply.normalized) : reply \in NormalizedReplies}
    \cup {Ok(ForeignFeedback)}

\* SessionResult that stores the feedback as the service returned it.
SessionResult_AsReturned(timingSummary, feedback) == feedback

\* { timingSummary, corrections: feedback.corrections, ... } (lines 198-203)
SessionResult(timingSummary, feedback) ==
    [ timingSummary |-> timingSummary,
      corrections |-> feedback.corrections,
      improvedBestAnswer |-> feedback.improvedBestAnswer,
      interviewTips |-> feedback.interviewTips ]

\* The outcomes of completeIfFinished: {[outcome, session, calls]}; outcome is
\* Ok(completion) with completion = session.result or Null, or the error thrown.
completeIfFinished(session) ==
    IF ~IsFinished(session)
    THEN {[outcome |-> Ok(Null), session |-> session, calls |-> <<>>]}
    ELSE LET params == FeedbackParams(session) IN
         { LET calls == <<CallWith("generateFeedback", params, feedback)>> IN
           IF ~feedback.ok
           THEN [outcome |-> feedback, session |-> session, calls |-> calls]
           ELSE LET completed == Complete(session,
                                          SessionResult(params.timingSummary, feedback.value))
                IN [outcome |-> Ok(completed.result), session |-> completed, calls |-> calls]
           : feedback \in InterviewCoachFeedbackResults(params) }

\* What a request leaves behind: the repository, the value returned or the
\* error thrown, and the services called, in order.
Done(store, outcome, calls) == [sessions |-> store, outcome |-> outcome, calls |-> calls]

\* Abandon with findById handing out the stored object itself instead of a
\* copy: what the request did to the session before the error stays stored.
Abandon_Aliased(store, session, error, calls) == Done(save(store, session), error, calls)

\* A service threw: the error propagates out of execute and the session the
\* request was working on, a private copy made by findById, is dropped.
Abandon(store, session, error, calls) == Done(store, error, calls)

\* AdvanceResult that returns as nextPrompt the question just answered.
AdvanceResult_StalePrompt(session, transcript, interviewerMessage, completion) ==
    [ sessionId |-> session.id,
      status |-> session.status,
      usedTranscript |-> transcript,
      interviewerMessage |-> interviewerMessage,
      nextPrompt |-> IF session.status = "completed" THEN Null
                     ELSE Some(session.questions[session.questionIndex]),
      promptType |-> IF session.status = "completed" THEN "completed" ELSE "question",
      result |-> completion ]

\* The value returned once the question is closed (lines 101-109 and 141-149).
AdvanceResult(session, transcript, interviewerMessage, completion) ==
    [ sessionId |-> session.id,
      status |-> session.status,
      usedTranscript |-> transcript,
      interviewerMessage |-> interviewerMessage,
      nextPrompt |-> IF session.status = "completed" THEN Null
                     ELSE IF session.questionIndex < Len(session.questions)
                     THEN Some(session.questions[session.questionIndex + 1])
                     ELSE Null,
      promptType |-> IF session.status = "completed" THEN "completed" ELSE "question",
      result |-> completion ]

\* Advance that stays on the question.
Advance_Stalled(session) == session

\* Advance that skips a question.
Advance_ByTwo(session) == [session EXCEPT !.questionIndex = @ + 2]

\* session.questionIndex += 1
Advance(session) == [session EXCEPT !.questionIndex = @ + 1]

\* AdvanceAndSave with the save moved before completeIfFinished: the completion
\* is returned to the client and never stored.
AdvanceAndSave_SavedBeforeCompletion(store, session, transcript, interviewerMessage, calls) ==
    { IF ~c.outcome.ok THEN Done(store, c.outcome, calls \o c.calls)
      ELSE Done(save(store, Advance(session)),
                Ok(AdvanceResult(c.session, transcript, interviewerMessage, c.outcome.value)),
                calls \o c.calls)
      : c \in completeIfFinished(Advance(session)) }

\* questionIndex += 1; completeIfFinished; save; return (lines 97-109 and 136-149)
AdvanceAndSave(store, session, transcript, interviewerMessage, calls) ==
    { IF ~c.outcome.ok THEN Abandon(store, c.session, c.outcome, calls \o c.calls)
      ELSE Done(save(store, c.session),
                Ok(AdvanceResult(c.session, transcript, interviewerMessage, c.outcome.value)),
                calls \o c.calls)
      : c \in completeIfFinished(Advance(session)) }

\* IsCompleted that takes no session for completed.
IsCompleted_Never(session) == FALSE

\* session.status === 'completed'
IsCompleted(session) == session.status = "completed"

\* session.questions[session.questionIndex] is a question
HasActiveQuestion(session) ==
    /\ session.questionIndex < Len(session.questions)
    /\ session.questions[session.questionIndex + 1] # ""

\* HonoredFollowUp that does not look at session.allowFollowUps.
HonoredFollowUp_Always(session, interviewerReply) == interviewerReply.followUpQuestion

\* HonoredFollowUp that drops the follow-up of the last question.
HonoredFollowUp_NotOnLast(session, interviewerReply) ==
    IF session.allowFollowUps /\ session.questionIndex + 1 < Len(session.questions)
    THEN interviewerReply.followUpQuestion
    ELSE Null

\* session.allowFollowUps ? interviewerReply.followUpQuestion : null
HonoredFollowUp(session, interviewerReply) ==
    IF session.allowFollowUps THEN interviewerReply.followUpQuestion ELSE Null

\* PushTurn that leaves the follow-up question out of the turn.
PushTurn_WithoutFollowUp(session, question, transcript, followUpQuestion, responseDelaySec) ==
    [session EXCEPT !.turns = Append(@,
        [ question |-> question,
          answer |-> transcript,
          followUpQuestion |-> Null,
          followUpAnswer |-> Null,
          mainResponseDelaySec |-> responseDelaySec,
          followUpResponseDelaySec |-> Null ])]

\* session.turns.push({...})
PushTurn(session, question, transcript, followUpQuestion, responseDelaySec) ==
    [session EXCEPT !.turns = Append(@,
        [ question |-> question,
          answer |-> transcript,
          followUpQuestion |-> followUpQuestion,
          followUpAnswer |-> Null,
          mainResponseDelaySec |-> responseDelaySec,
          followUpResponseDelaySec |-> Null ])]

\* MarkAwaiting that sets the flag and forgets the question.
MarkAwaiting_FlagOnly(session, followUpQuestion) ==
    [session EXCEPT !.awaitingFollowUp = TRUE]

\* MarkAwaiting that also moves on to the next question.
MarkAwaiting_Advancing(session, followUpQuestion) ==
    [session EXCEPT !.awaitingFollowUp = TRUE, !.pendingFollowUpQuestion = followUpQuestion,
                    !.questionIndex = @ + 1]

\* session.awaitingFollowUp = true; session.pendingFollowUpQuestion = followUpQuestion
MarkAwaiting(session, followUpQuestion) ==
    [session EXCEPT !.awaitingFollowUp = TRUE, !.pendingFollowUpQuestion = followUpQuestion]

\* submitMainAnswer from the call of generateInterviewerReply on (lines 65-109).
recordMainAnswer(store, session, question, transcript, responseDelaySec, calls0) ==
    LET params == [question |-> question, answer |-> transcript] IN
    UNION {
      LET reply == generateInterviewerReply(params, api)
          calls == Append(calls0, Call("generateInterviewerReply", reply))
      IN IF ~reply.ok THEN {Abandon(store, session, reply, calls)}
         ELSE LET interviewerReply == reply.value
                  followUpQuestion == HonoredFollowUp(session, interviewerReply)
                  pushed == PushTurn(session, question, transcript, followUpQuestion,
                                     responseDelaySec)
              IN IF Truthy(followUpQuestion)
                 THEN LET awaiting == MarkAwaiting(pushed, followUpQuestion) IN
                      { Done(save(store, awaiting),
                             Ok([ sessionId |-> awaiting.id,
                                  status |-> awaiting.status,
                                  usedTranscript |-> transcript,
                                  interviewerMessage |-> interviewerReply.replyText,
                                  nextPrompt |-> followUpQuestion,
                                  promptType |-> "follow_up",
                                  result |-> Null ]),
                             calls) }
                 ELSE AdvanceAndSave(store, pushed, transcript,
                                     interviewerReply.replyText, calls)
      : api \in InterviewerReplyApiResults }

submitMainAnswer(store, session, transcript, responseDelaySec, calls0) ==
    IF ~HasActiveQuestion(session)
    THEN {Done(store, ValidationError("No active question found for this session."), calls0)}
    ELSE recordMainAnswer(store, session, session.questions[session.questionIndex + 1],
                          transcript, responseDelaySec, calls0)

\* RecordFollowUpAnswer that records the follow-up answer in a turn of its own.
RecordFollowUpAnswer_AsNewTurn(session, transcript, responseDelaySec) ==
    [session EXCEPT
        !.turns = Append(@, [@[Len(@)] EXCEPT
                                !.followUpAnswer = Some(transcript),
                                !.followUpResponseDelaySec = Some(responseDelaySec)])]

\* activeTurn.followUpAnswer = transcript; activeTurn.followUpResponseDelaySec = responseDelaySec
RecordFollowUpAnswer(session, transcript, responseDelaySec) ==
    [session EXCEPT
        !.turns[Len(session.turns)].followUpAnswer = Some(transcript),
        !.turns[Len(session.turns)].followUpResponseDelaySec = Some(responseDelaySec)]

\* ClearFollowUp that clears the question and leaves the flag set.
ClearFollowUp_KeepsAwaiting(session) == [session EXCEPT !.pendingFollowUpQuestion = Null]

\* session.awaitingFollowUp = false; session.pendingFollowUpQuestion = null
ClearFollowUp(session) ==
    [session EXCEPT !.awaitingFollowUp = FALSE, !.pendingFollowUpQuestion = Null]

submitFollowUpAnswer(store, session, transcript, responseDelaySec, calls0) ==
    IF session.turns = <<>> \/ ~Truthy(session.turns[Len(session.turns)].followUpQuestion)
    THEN {Done(store, ValidationError("Follow-up is not available for this session state."),
               calls0)}
    ELSE LET answered == RecordFollowUpAnswer(session, transcript, responseDelaySec)
             activeTurn == answered.turns[Len(answered.turns)]
             params == [ question |-> activeTurn.question,
                         answer |-> activeTurn.answer,
                         followUpQuestion |-> Val(activeTurn.followUpQuestion),
                         followUpAnswer |-> transcript ]
         IN UNION {
              LET closeText == generateFollowUpClose(params, api)
                  calls == Append(calls0, Call("generateFollowUpClose", closeText))
              IN IF ~closeText.ok THEN {Abandon(store, answered, closeText, calls)}
                 ELSE AdvanceAndSave(store, ClearFollowUp(answered), transcript,
                                     closeText.value, calls)
              : api \in FollowUpCloseApiResults }

\* execute with its two defensive checks left out: neither the status of the
\* session nor the presence of a question at questionIndex is looked at.
execute_Unguarded(store, input) ==
    LET found == findById(store, input.sessionId) IN
    IF found = Null THEN {Done(store, NotFoundError("Session not found."), <<>>)}
    ELSE LET session == Val(found)
             question == IF session.questionIndex < Len(session.questions)
                         THEN session.questions[session.questionIndex + 1]
                         ELSE ""
             responseDelaySec == normalizeDelay(input.responseDelaySec)
         IN IF ~responseDelaySec.ok THEN {Done(store, responseDelaySec, <<>>)}
            ELSE UNION {
                   IF ~t.outcome.ok THEN {Done(store, t.outcome, t.calls)}
                   ELSE IF session.awaitingFollowUp
                   THEN submitFollowUpAnswer(store, session, t.outcome.value,
                                             responseDelaySec.value, t.calls)
                   ELSE recordMainAnswer(store, session, question, t.outcome.value,
                                         responseDelaySec.value, t.calls)
                   : t \in resolveTranscript(input) }

\* SubmitAnswerUseCase.execute: every way the request can end.
execute(store, input) ==
    LET found == findById(store, input.sessionId) IN
    IF found = Null THEN {Done(store, NotFoundError("Session not found."), <<>>)}
    ELSE LET session == Val(found) IN
         IF IsCompleted(session)
         THEN {Done(store, ValidationError("Session is already completed."), <<>>)}
         ELSE LET responseDelaySec == normalizeDelay(input.responseDelaySec) IN
              IF ~responseDelaySec.ok THEN {Done(store, responseDelaySec, <<>>)}
              ELSE UNION {
                     IF ~t.outcome.ok THEN {Done(store, t.outcome, t.calls)}
                     ELSE IF session.awaitingFollowUp
                     THEN submitFollowUpAnswer(store, session, t.outcome.value,
                                               responseDelaySec.value, t.calls)
                     ELSE submitMainAnswer(store, session, t.outcome.value,
                                           responseDelaySec.value, t.calls)
                     : t \in resolveTranscript(input) }

SubmitAnswerInputs ==
    { [ sessionId |-> sessionId,
        answerText |-> body.answerText,
        audioBase64 |-> body.audioBase64,
        mimeType |-> body.mimeType,
        responseDelaySec |-> body.responseDelaySec ]
      : sessionId \in SessionIds, body \in SubmitAnswerBodies }

\* Submissions a session has accepted: one per turn and one per follow-up answered.
Accepted(session) ==
    Len(session.turns)
    + Cardinality({i \in 1 .. Len(session.turns) : session.turns[i].followUpAnswer # Null})

RECURSIVE AcceptedUpTo(_, _)
AcceptedUpTo(store, id) ==
    IF id = 0 THEN 0
    ELSE (IF store[id] = Null THEN 0 ELSE Accepted(Val(store[id]))) + AcceptedUpTo(store, id - 1)

\* A request that fails returns its error to the client and leaves no trace:
\* it never reaches a save, so the repository and the last change stay as they are.
SubmitAnswer ==
    LET room == AcceptedUpTo(sessions, MaxSessions + 1) < MaxSubmits IN
    \E input \in SubmitAnswerInputs :
       \E done \in execute(sessions, input) :
          /\ done.outcome.ok => room
          /\ sessions' = done.sessions
          /\ last' = IF done.outcome.ok
                     THEN [ op |-> "SubmitAnswer", sessionId |-> input.sessionId,
                            calls |-> done.calls, outcome |-> done.outcome ]
                     ELSE last
          /\ UNCHANGED <<created, feedbackCalls, inflight, submitted>>

\* The calls of generateFeedback among the calls of a request.
FeedbackCallsIn(calls) ==
    Cardinality({i \in 1 .. Len(calls) : calls[i].service = "generateFeedback"})

\* SubmitAnswer with the calls of generateFeedback counted, those of failing
\* requests included.
SubmitAnswerCounted ==
    LET room == AcceptedUpTo(sessions, MaxSessions + 1) < MaxSubmits IN
    \E input \in SubmitAnswerInputs :
       \E done \in execute(sessions, input) :
          LET invoked == FeedbackCallsIn(done.calls) IN
          /\ done.outcome.ok => room
          /\ feedbackCalls[input.sessionId] + invoked <= MaxFeedbackCalls
          /\ sessions' = done.sessions
          /\ last' = IF done.outcome.ok
                     THEN [ op |-> "SubmitAnswer", sessionId |-> input.sessionId,
                            calls |-> done.calls, outcome |-> done.outcome ]
                     ELSE last
          /\ feedbackCalls' = [feedbackCalls EXCEPT ![input.sessionId] = @ + invoked]
          /\ UNCHANGED <<created, inflight, submitted>>

\* SubmitAnswer with the successful submissions to each session counted. A
\* session is followed to its end: it takes no submission once completed.
SubmitAnswerTallied ==
    \E input \in SubmitAnswerInputs :
       \E done \in execute(sessions, input) :
          /\ done.outcome.ok => submitted[input.sessionId] < MaxAnswers
          /\ sessions' = done.sessions
          /\ last' = IF done.outcome.ok
                     THEN [ op |-> "SubmitAnswer", sessionId |-> input.sessionId,
                            calls |-> done.calls, outcome |-> done.outcome ]
                     ELSE last
          /\ submitted' = IF done.outcome.ok
                          THEN [submitted EXCEPT ![input.sessionId] = @ + 1]
                          ELSE submitted
          /\ UNCHANGED <<created, feedbackCalls, inflight>>

\* What a submission that succeeds does to the count: the client sent a valid
\* answer to a session in progress and every service called answered. In
\* SpecSession the count moves in no other step, so the steps of
\* SubmitAnswerTallied that move it are the steps of SubmitAnswerSucceeds.
SubmitAnswerSucceeds ==
    \E id \in SessionIds :
       /\ sessions[id] # Null
       /\ Val(sessions[id]).status = "in_progress"
       /\ submitted[id] < MaxAnswers
       /\ submitted' = [submitted EXCEPT ![id] = @ + 1]

-----------------------------------------------------------------------------
(* Concurrent submissions *)

\* A submission touches the repository twice: findById at line 35, which hands
\* it a copy of the session, and save as its last step (lines 84, 99, 139).
\* Everything between, the awaited service calls included, works on the copy,
\* so what other requests can observe of a submission is its read and its
\* save, in any order with theirs. SubmitAnswerRead is the read together with
\* the work on the copy, for every way the services may answer;
\* SubmitAnswerSave is the save. A submission that fails saves nothing.
\* Submissions to different sessions share nothing (the repository is keyed by
\* session id), so one session is followed: the first one created.
CreateSessionFirst ==
    /\ created = 0
    /\ CreateSession

\* The submissions that overlap all carry the spoken answer: what an answer
\* says plays no part in what a submission reads and saves.
ConcurrentInputs == {input \in SubmitAnswerInputs : input.mimeType # Null}

SubmitAnswerRead ==
    /\ Cardinality(inflight) < MaxInflight
    /\ \E input \in ConcurrentInputs :
          \E done \in execute(sessions, input) :
             /\ done.outcome.ok
             /\ Accepted(Val(done.sessions[input.sessionId])) <= MaxConcurrentAnswers
             /\ inflight' = inflight \cup {Val(done.sessions[input.sessionId])}
    /\ UNCHANGED <<sessions, created, last, feedbackCalls, submitted>>

SubmitAnswerSave ==
    /\ \E session \in inflight :
          /\ sessions' = save(sessions, session)
          /\ inflight' = inflight \ {session}
    /\ UNCHANGED <<created, last, feedbackCalls, submitted>>

-----------------------------------------------------------------------------

Init ==
    /\ sessions = [id \in SessionIds |-> Null]
    /\ created = 0
    /\ last = [op |-> "none", sessionId |-> 0, calls |-> <<>>, outcome |-> Ok(Null)]
    /\ feedbackCalls = [id \in SessionIds |-> 0]
    /\ inflight = {}
    /\ submitted = [id \in SessionIds |-> 0]

Next ==
    \/ CreateSession
    \/ GetCurrentPrompt
    \/ GetSessionResult
    \/ SubmitAnswer

Spec == Init /\ [][Next]_vars

\* Session creation alone, over every requested count.
NextCreate == CreateSessionRequested

SpecCreate == Init /\ [][NextCreate]_vars

\* computeTimingSummary alone, over every list of turns.
NextTiming == ComputeTimingSummary

SpecTiming == Init /\ [][NextTiming]_vars

\* One session created and answered one request at a time, with the calls of
\* generateFeedback counted. The count is kept per session id and a request
\* reads and writes only the session it names, so one session is followed.
NextFeedback ==
    \/ CreateSessionFirst
    \/ SubmitAnswerCounted

SpecFeedback == Init /\ [][NextFeedback]_vars

\* One session followed from its creation to its completion, whatever the
\* number of submissions that takes.
NextSession ==
    \/ CreateSessionFirst
    \/ GetCurrentPrompt
    \/ GetSessionResult
    \/ SubmitAnswerTallied

SpecSession == Init /\ [][NextSession]_vars

\* SpecSession with a client that keeps submitting valid answers and services
\* that do not fail for ever: a submission that can succeed eventually does.
SpecLive == SpecSession /\ WF_submitted(SubmitAnswerSucceeds)

-----------------------------------------------------------------------------
(* generateFeedback on replies of every length *)

\* Replies whose corrections, or whose tips, have each length up to the
\* longest with valid entries in each set of positions, and a reply that has
\* no list where one is expected.
ReplyShapes ==
    UNION { { [lists |-> TRUE, count |-> n, valid |-> valid, tipCount |-> 0, validTips |-> {}]
              : valid \in SUBSET (1 .. n) } : n \in 0 .. MaxReplyCorrections }
    \cup UNION { { [lists |-> TRUE, count |-> 0, valid |-> {}, tipCount |-> n, validTips |-> valid]
                   : valid \in SUBSET (1 .. n) } : n \in 0 .. MaxReplyTips }
    \cup { [lists |-> FALSE, count |-> 0, valid |-> {}, tipCount |-> 0, validTips |-> {}] }

ReplyOfShape(shape) ==
    IF shape.lists
    THEN FeedbackReply(JArr(CorrectionItems(shape.count, shape.valid)),
                       JArr(TipItems(shape.tipCount, shape.validTips)))
    ELSE FeedbackReply(JStr("no corrections"), JObj([first |-> JStr("Slow down.")]))

\* One call of generateFeedback, made on a server that has served nothing yet.
GenerateFeedback ==
    /\ last.op = "none"
    /\ \E shape \in ReplyShapes :
          LET params == [timingSummary |-> computeTimingSummary(<<>>), transcript |-> <<>>] IN
          last' = [ op |-> "generateFeedback", sessionId |-> 0, calls |-> <<>>,
                    outcome |-> generateFeedback(params, ReplyOfShape(shape)),
                    input |-> shape ]
    /\ UNCHANGED <<sessions, created, feedbackCalls, inflight, submitted>>

\* One session through its whole life, and generateFeedback alone.
NextCoach ==
    \/ CreateSessionFirst
    \/ SubmitAnswerTallied
    \/ GenerateFeedback

SpecCoach == Init /\ [][NextCoach]_vars

-----------------------------------------------------------------------------
(* Several sessions in the repository *)

\* CreateSession until every id of the model is taken, for sessions of two
\* questions.
CreateSessionEach ==
    /\ created < Cardinality(SessionIds)
    /\ \E allowFollowUps \in AllowFollowUpsInputs :
          LET input == [questionCount |-> Some(2), allowFollowUps |-> allowFollowUps]
              session == NewSession(created + 1, input)
          IN /\ sessions' = create(sessions, session)
             /\ created' = created + 1
             /\ last' = [ op |-> "CreateSession", sessionId |-> session.id,
                          calls |-> <<>>, outcome |-> Ok(session) ]
             /\ UNCHANGED <<feedbackCalls, inflight, submitted>>

\* SubmitAnswer with a spoken answer to any of the sessions stored, in any
\* order.
SubmitAnswerAmong ==
    LET room == AcceptedUpTo(sessions, Cardinality(SessionIds)) < MaxStoreSubmits IN
    \E input \in ConcurrentInputs :
       \E done \in execute(sessions, input) :
          /\ done.outcome.ok => room
          /\ sessions' = done.sessions
          /\ last' = IF done.outcome.ok
                     THEN [ op |-> "SubmitAnswer", sessionId |-> input.sessionId,
                            calls |-> done.calls, outcome |-> done.outcome ]
                     ELSE last
          /\ UNCHANGED <<created, feedbackCalls, inflight, submitted>>

\* As many sessions as the model has ids, created and answered in any order.
NextStore ==
    \/ CreateSessionEach
    \/ SubmitAnswerAmong

SpecStore == Init /\ [][NextStore]_vars

\* Sessions created and answered with submissions that overlap.
NextConcurrent ==
    \/ CreateSessionFirst
    \/ SubmitAnswerRead
    \/ SubmitAnswerSave

SpecConcurrent == Init /\ [][NextConcurrent]_vars

-----------------------------------------------------------------------------
(* Properties *)

Stored == {id \in SessionIds : sessions[id] # Null}

\* The value a successful request returned.
Returned == last.outcome.value

\* What generateInterviewerReply returned during a request, Null when the
\* request did not call it.
InterviewerReplyIn(calls) ==
    LET at == {i \in 1 .. Len(calls) : calls[i].service = "generateInterviewerReply"} IN
    IF at = {} THEN Null ELSE Some(calls[CHOOSE i \in at : TRUE].returned.value)

\* Every request a completed session may receive, with every way it can end.
RequestsOn(id) == {input \in SubmitAnswerInputs : input.sessionId = id}

\* Delays a client may submit, in thousandths of a second: negative ones, none,
\* ones of at most two decimals, ones nearer to one hundredth than to the next
\* and ones halfway between two hundredths.
SubmittedDelays ==
    {Null, Some(NotFinite)}
    \cup {Some(Millis(ms)) : ms \in {-1000, -1, 0, 4, 115, 120, 875, 1005, 1238, 4005,
                                      5996}}

\* Typed and spoken answers to the session id, one for each delay submitted.
DelayedRequestsOn(id) ==
    { [ sessionId |-> id,
        answerText |-> body.answerText,
        audioBase64 |-> body.audioBase64,
        mimeType |-> body.mimeType,
        responseDelaySec |-> responseDelaySec ]
      : body \in { Body(Some(" typed answer "), Null, Null, Null),
                   Body(Null, Some("aGVsbG8="), Some(" audio/webm "), Null) },
        responseDelaySec \in SubmittedDelays }

\* C1: in every stored session, whatever requests succeeded or failed before,
\* result is non-null exactly when status is completed.
C1_ResultIffCompleted ==
    \A id \in Stored :
       (Val(sessions[id]).result # Null) <=> (Val(sessions[id]).status = "completed")

C1_Witness ==
    \E id \in Stored :
       /\ Val(sessions[id]).status = "completed"
       /\ Val(sessions[id]).result # Null
       /\ Len(Val(sessions[id]).turns) = Len(Val(sessions[id]).questions)

\* C2 as stated: in every stored session turns.length equals questionIndex.
C2_TurnsEqualQuestionIndex ==
    \A id \in Stored : Len(Val(sessions[id]).turns) = Val(sessions[id]).questionIndex

\* C2, amended: in every stored session turns.length equals questionIndex,
\* except while the session awaits a follow-up answer, when the turn of the
\* question being followed up is already recorded and turns.length equals
\* questionIndex + 1.
C2_TurnsTrackQuestionIndex ==
    \A id \in Stored :
       Len(Val(sessions[id]).turns) =
          Val(sessions[id]).questionIndex
          + (IF Val(sessions[id]).awaitingFollowUp THEN 1 ELSE 0)

C2_Witness ==
    \E id \in Stored :
       /\ Val(sessions[id]).awaitingFollowUp
       /\ Val(sessions[id]).questionIndex = 1
       /\ Len(Val(sessions[id]).turns) = 2

\* C3: in every stored session awaitingFollowUp is true exactly when
\* pendingFollowUpQuestion is non-null, so no request sets or clears one
\* without the other.
C3_AwaitingIffPending ==
    \A id \in Stored :
       Val(sessions[id]).awaitingFollowUp <=> (Val(sessions[id]).pendingFollowUpQuestion # Null)

C3_Witness ==
    \E id \in Stored :
       /\ Val(sessions[id]).awaitingFollowUp
       /\ Val(sessions[id]).pendingFollowUpQuestion = Some("Can you give an example?")
       /\ last.op = "SubmitAnswer"

\* C4: a session created with allowFollowUps = false is never awaiting a
\* follow-up and none of its turns records a follow-up question, whatever
\* generateInterviewerReply returned; every successful submission to it adds
\* one turn and advances questionIndex by one.
C4_FollowUpsSuppressed ==
    /\ [](\A id \in Stored :
            ~Val(sessions[id]).allowFollowUps =>
               /\ ~Val(sessions[id]).awaitingFollowUp
               /\ Val(sessions[id]).pendingFollowUpQuestion = Null
               /\ \A i \in 1 .. Len(Val(sessions[id]).turns) :
                     Val(sessions[id]).turns[i].followUpQuestion = Null)
    /\ [][\A id \in Stored :
            (~Val(sessions[id]).allowFollowUps /\ sessions'[id] # sessions[id]) =>
               /\ last'.op = "SubmitAnswer" /\ last'.sessionId = id
               /\ Val(sessions'[id]).questionIndex = Val(sessions[id]).questionIndex + 1
               /\ Len(Val(sessions'[id]).turns) = Len(Val(sessions[id]).turns) + 1]_vars

C4_Witness ==
    /\ last.op = "SubmitAnswer"
    /\ ~Val(sessions[last.sessionId]).allowFollowUps
    /\ InterviewerReplyIn(last.calls) # Null
    /\ Val(InterviewerReplyIn(last.calls)).followUpQuestion # Null
    /\ Val(sessions[last.sessionId]).questionIndex = 1

\* C5: in a session created with allowFollowUps = false and n questions, the
\* k-th successful submission returns promptType question with catalog
\* question k + 1 when k < n, and promptType completed, nextPrompt null and a
\* non-null result when k = n; the session is completed exactly from the n-th on.
C5_CompletesAtQuestionCount ==
    /\ \A id \in Stored :
          ~Val(sessions[id]).allowFollowUps =>
             ((Val(sessions[id]).status = "completed")
                <=> (Accepted(Val(sessions[id])) = Len(Val(sessions[id]).questions)))
    /\ (last.op = "SubmitAnswer" /\ ~Val(sessions[last.sessionId]).allowFollowUps) =>
          LET session == Val(sessions[last.sessionId])
              k == Accepted(session)
          IN IF k < Len(session.questions)
             THEN /\ Returned.promptType = "question"
                  /\ Returned.nextPrompt = Some(QUESTION_BANK[k + 1])
                  /\ Returned.status = "in_progress"
                  /\ Returned.result = Null
             ELSE /\ k = Len(session.questions)
                  /\ Returned.promptType = "completed"
                  /\ Returned.status = "completed"
                  /\ Returned.nextPrompt = Null
                  /\ Returned.result # Null

C5_Witness ==
    /\ last.op = "SubmitAnswer"
    /\ ~Val(sessions[last.sessionId]).allowFollowUps
    /\ Len(Val(sessions[last.sessionId]).questions) = 3
    /\ Accepted(Val(sessions[last.sessionId])) = 3
    /\ Returned.promptType = "completed"

\* C6: the result a submission returns with promptType completed is the one
\* GetSessionResult returns for that session, with status completed, and
\* keeps returning after any further request; for a session in progress
\* GetSessionResult returns result null.
C6_ReturnedResultIsStored ==
    /\ []((last.op = "SubmitAnswer" /\ Returned.promptType = "completed") =>
            GetSessionResultExecute(sessions, last.sessionId) =
               Ok([ sessionId |-> last.sessionId, status |-> "completed",
                    result |-> Returned.result ]))
    /\ [](\A id \in Stored :
            Val(sessions[id]).status = "in_progress" =>
               GetSessionResultExecute(sessions, id).value.result = Null)
    /\ [][\A id \in Stored :
            GetSessionResultExecute(sessions, id).value.status = "completed" =>
               GetSessionResultExecute(sessions', id) = GetSessionResultExecute(sessions, id)]_vars

C6_Witness ==
    /\ last.op = "SubmitAnswer"
    /\ Returned.promptType = "completed"
    /\ Returned.result # Null
    /\ GetSessionResultExecute(sessions, last.sessionId).value.result = Returned.result

\* C7: when a session with allowFollowUps = true answers a question and
\* generateInterviewerReply returns a follow-up question, the session is stored
\* awaiting that follow-up with questionIndex and status as they were, and the
\* request returns promptType follow_up, nextPrompt the follow-up and result
\* null; the last question is no exception.
C7_FollowUpAsked ==
    [][\A id \in Stored :
         LET before == Val(sessions[id])
             after == Val(sessions'[id])
             reply == InterviewerReplyIn(last'.calls)
         IN ( /\ sessions'[id] # sessions[id]
              /\ before.allowFollowUps
              /\ ~before.awaitingFollowUp
              /\ reply # Null
              /\ Val(reply).followUpQuestion # Null ) =>
               /\ last'.op = "SubmitAnswer" /\ last'.sessionId = id
               /\ after.awaitingFollowUp
               /\ after.pendingFollowUpQuestion = Val(reply).followUpQuestion
               /\ after.questionIndex = before.questionIndex
               /\ after.status = before.status
               /\ last'.outcome.value.promptType = "follow_up"
               /\ last'.outcome.value.nextPrompt = Val(reply).followUpQuestion
               /\ last'.outcome.value.status = "in_progress"
               /\ last'.outcome.value.result = Null]_vars

C7_Witness ==
    /\ last.op = "SubmitAnswer"
    /\ Returned.promptType = "follow_up"
    /\ Val(sessions[last.sessionId]).awaitingFollowUp
    /\ Val(sessions[last.sessionId]).questionIndex + 1
          = Len(Val(sessions[last.sessionId]).questions)

\* C8: a successful submission to a session awaiting a follow-up stores it
\* with awaitingFollowUp false, pendingFollowUpQuestion null and questionIndex
\* one higher, the answer recorded in the turn it followed up and no turn added.
C8_FollowUpAnswered ==
    [][\A id \in Stored :
         LET before == Val(sessions[id])
             after == Val(sessions'[id])
         IN (before.awaitingFollowUp /\ sessions'[id] # sessions[id]) =>
               /\ last'.op = "SubmitAnswer" /\ last'.sessionId = id
               /\ ~after.awaitingFollowUp
               /\ after.pendingFollowUpQuestion = Null
               /\ after.questionIndex = before.questionIndex + 1
               /\ Len(after.turns) = Len(before.turns)
               /\ after.turns[Len(after.turns)].followUpAnswer # Null
               /\ last'.outcome.value.promptType # "follow_up"]_vars

C8_Witness ==
    \E id \in Stored :
       /\ ~Val(sessions[id]).awaitingFollowUp
       /\ Val(sessions[id]).turns # <<>>
       /\ Val(sessions[id]).turns[Len(Val(sessions[id]).turns)].followUpAnswer # Null
       /\ Val(sessions[id]).status = "in_progress"

\* C9: once a session is stored with status completed, every later request
\* leaves it stored with status completed and the same result.
C9_CompletedIsFinal ==
    [][\A id \in Stored :
         Val(sessions[id]).status = "completed" =>
            /\ sessions'[id] # Null
            /\ Val(sessions'[id]).status = "completed"
            /\ Val(sessions'[id]).result = Val(sessions[id]).result]_vars

C9_Witness ==
    \E id \in Stored :
       /\ Val(sessions[id]).status = "completed"
       /\ Accepted(Val(sessions[id])) < MaxSubmits
       /\ \E input \in RequestsOn(id) : execute(sessions, input) # {}

\* C10: a submission to a completed session ends in one way, whatever its
\* body: the ValidationError "Session is already completed.", with no service
\* called and the repository as it was.
C10_CompletedRejects ==
    \A id \in Stored :
       Val(sessions[id]).status = "completed" =>
          \A input \in RequestsOn(id) :
             execute(sessions, input) =
                {Done(sessions, ValidationError("Session is already completed."), <<>>)}

C10_Witness ==
    \E id \in Stored :
       /\ Val(sessions[id]).status = "completed"
       /\ \E input \in RequestsOn(id) :
             /\ input.answerText = Null /\ input.audioBase64 = Null
             /\ \E done \in execute(sessions, input) :
                   done.outcome.message = "Session is already completed."

\* C11: in every stored session questionIndex is at least 0 and at most
\* questions.length, it is 0 in a session just created, and no request
\* lowers it or raises it by more than one.
C11_QuestionIndexBounded ==
    /\ [](\A id \in Stored :
            /\ Val(sessions[id]).questionIndex >= 0
            /\ Val(sessions[id]).questionIndex <= Len(Val(sessions[id]).questions))
    /\ [][\A id \in SessionIds :
            IF sessions[id] = Null
            THEN sessions'[id] # Null => Val(sessions'[id]).questionIndex = 0
            ELSE /\ sessions'[id] # Null
                 /\ Val(sessions'[id]).questionIndex >= Val(sessions[id]).questionIndex
                 /\ Val(sessions'[id]).questionIndex <= Val(sessions[id]).questionIndex + 1]_vars

C11_Witness ==
    \E id \in Stored :
       /\ Val(sessions[id]).questionIndex = Len(Val(sessions[id]).questions)
       /\ Val(sessions[id]).questionIndex >= 2
       /\ last.op = "SubmitAnswer" /\ last.sessionId = id

\* C12: when a service called by a submission throws (transcribe,
\* generateInterviewerReply, generateFollowUpClose or generateFeedback), the
\* submission ends with that very error and the repository is what it was
\* before, so any request that follows sees the sessions it would have seen
\* had the failed one never been made.
C12_ServiceFailureLeavesNoTrace ==
    \A id \in Stored :
       \A input \in RequestsOn(id) :
          \A done \in execute(sessions, input) :
             (done.calls # <<>> /\ ~done.calls[Len(done.calls)].returned.ok) =>
                /\ done.outcome = done.calls[Len(done.calls)].returned
                /\ done.outcome.error = "Error"
                /\ done.sessions = sessions

C12_Witness ==
    \E id \in Stored :
       /\ Val(sessions[id]).awaitingFollowUp
       /\ Val(sessions[id]).questionIndex + 1 = Len(Val(sessions[id]).questions)
       /\ \E input \in RequestsOn(id) :
             \E done \in execute(sessions, input) :
                /\ Len(done.calls) = 3
                /\ done.calls[1].service = "transcribe"
                /\ done.calls[2].service = "generateFollowUpClose"
                /\ done.calls[3].service = "generateFeedback"
                /\ ~done.calls[3].returned.ok
                /\ done.sessions = sessions

C14_NoUsableAnswerRejected ==
    \A id \in Stored :
       Val(sessions[id]).status = "in_progress" =>
          \A input \in RequestsOn(id) :
             \A done \in execute(sessions, input) :
                LET noText == input.answerText = Null \/ Trim(Val(input.answerText)) = ""
                    noAudio == input.audioBase64 = Null \/ Val(input.audioBase64) = ""
                    emptyAudio == ~noAudio /\ DecodedLength(Val(input.audioBase64)) = 0
                    blank == /\ done.calls # <<>>
                             /\ done.calls[1].service = "transcribe"
                             /\ done.calls[1].returned.ok
                             /\ Trim(done.calls[1].returned.value) = ""
                IN (noText /\ (noAudio \/ emptyAudio \/ blank)) =>
                      /\ ~done.outcome.ok
                      /\ done.outcome.error = "ValidationError"
                      /\ done.outcome.message =
                            (IF noAudio THEN "Provide either answerText or audioBase64."
                             ELSE IF emptyAudio THEN "Decoded audio payload is empty."
                             ELSE "Transcription returned empty text.")
                      /\ \A i \in 1 .. Len(done.calls) : done.calls[i].service = "transcribe"
                      /\ done.sessions = sessions

C14_Witness ==
    \E id \in Stored :
       /\ Val(sessions[id]).status = "in_progress"
       /\ Val(sessions[id]).turns # <<>>
       /\ \E input \in RequestsOn(id) :
             \E done \in execute(sessions, input) :
                /\ done.calls = <<Call("transcribe", Ok("  "))>>
                /\ done.outcome = ValidationError("Transcription returned empty text.")
       /\ \E input \in RequestsOn(id) :
             /\ input.audioBase64 = Some("====")
             /\ ValidationError("Decoded audio payload is empty.")
                   \in {done.outcome : done \in execute(sessions, input)}

\* C15: for a session id under which nothing is stored, GetCurrentPrompt,
\* GetSessionResult and SubmitAnswer (whatever its body) each end in the
\* NotFoundError "Session not found."; the submission calls no service and
\* leaves the repository as it was, with nothing stored under that id.
C15_UnknownSessionNotFound ==
    \A id \in SessionIds \ Stored :
       /\ GetCurrentPromptExecute(sessions, id) = NotFoundError("Session not found.")
       /\ GetSessionResultExecute(sessions, id) = NotFoundError("Session not found.")
       /\ \A input \in RequestsOn(id) :
             execute(sessions, input) =
                {Done(sessions, NotFoundError("Session not found."), <<>>)}

C15_Witness ==
    /\ \E id \in Stored : Val(sessions[id]).turns # <<>>
    /\ \E id \in SessionIds \ Stored :
          /\ GetCurrentPromptExecute(sessions, id).error = "NotFoundError"
          /\ GetSessionResultExecute(sessions, id).error = "NotFoundError"
          /\ \E input \in RequestsOn(id) :
                \E done \in execute(sessions, input) :
                   done.outcome.error = "NotFoundError" /\ done.sessions[id] = Null

\* C16: for every stored session GetCurrentPrompt returns totalQuestions =
\* questions.length and: when completed, prompt null, promptType completed and
\* questionNumber = totalQuestions; when in progress and awaiting a follow-up,
\* the pending follow-up question, promptType follow_up and questionNumber =
\* questionIndex + 1; otherwise questions[questionIndex], promptType question
\* and questionNumber = questionIndex + 1.
C16_CurrentPromptMapping ==
    \A id \in Stored :
       LET session == Val(sessions[id])
           returned == GetCurrentPromptExecute(sessions, id)
       IN /\ returned.ok
          /\ returned.value.sessionId = id
          /\ returned.value.status = session.status
          /\ returned.value.totalQuestions = Len(session.questions)
          /\ IF session.status = "completed"
             THEN /\ returned.value.prompt = Null
                  /\ returned.value.promptType = "completed"
                  /\ returned.value.questionNumber = Len(session.questions)
             ELSE IF session.awaitingFollowUp
             THEN /\ returned.value.prompt # Null
                  /\ returned.value.prompt = session.pendingFollowUpQuestion
                  /\ returned.value.promptType = "follow_up"
                  /\ returned.value.questionNumber = session.questionIndex + 1
             ELSE /\ session.questionIndex < Len(session.questions)
                  /\ returned.value.prompt = Some(session.questions[session.questionIndex + 1])
                  /\ returned.value.promptType = "question"
                  /\ returned.value.questionNumber = session.questionIndex + 1

C16_Witness ==
    \E id \in Stored :
       /\ Val(sessions[id]).awaitingFollowUp
       /\ GetCurrentPromptExecute(sessions, id).value.promptType = "follow_up"
       /\ GetCurrentPromptExecute(sessions, id).value.questionNumber = 2
       /\ GetCurrentPromptExecute(sessions, id).value.totalQuestions = 3

\* C17: computeTimingSummary returns as totalTurns the number of turns plus
\* the number of turns with a follow-up delay, and as longPausesCount the number
\* of main and follow-up delays above 4 seconds, a delay of 4 seconds not
\* counted; for a turn of 2 s followed by a turn of 5 s with a follow-up of
\* 1 s that is totalTurns 3 and longPausesCount 1.
C17_TimingCounts ==
    last.op = "computeTimingSummary" =>
       LET turns == last.input
           at == 1 .. Len(turns)
           followedUp == {i \in at : turns[i].followUpResponseDelaySec # Null}
       IN /\ Returned.totalTurns = Len(turns) + Cardinality(followedUp)
          /\ Returned.longPausesCount =
                Cardinality({i \in at : turns[i].mainResponseDelaySec >= 401})
                + Cardinality({i \in followedUp :
                                 Val(turns[i].followUpResponseDelaySec) >= 401})
          /\ turns = <<TimingTurn(200, Null), TimingTurn(500, Some(100))>> =>
                (Returned.totalTurns = 3 /\ Returned.longPausesCount = 1)

C17_Witness ==
    /\ last.op = "computeTimingSummary"
    /\ last.input = <<TimingTurn(400, Some(404)), TimingTurn(500, Null)>>
    /\ Returned.totalTurns = 3
    /\ Returned.longPausesCount = 2

\* C18 as stated: generateFeedback is called at most once for a session.
C18_FeedbackAtMostOncePerSession ==
    \A id \in SessionIds : feedbackCalls[id] <= 1

\* C18, amended: a request calls generateFeedback at most once, and only a
\* submission to a session in progress whose answer brings questionIndex to
\* questions.length does; when the request succeeds the session is stored
\* completed, after which no request calls it, and when the call fails nothing
\* is stored and the call is made again only by a later submission.
C18_FeedbackOncePerRequest ==
    /\ [](\A id \in Stored :
            Val(sessions[id]).status = "completed" => feedbackCalls[id] >= 1)
    /\ [][\A id \in SessionIds :
            feedbackCalls'[id] # feedbackCalls[id] =>
               /\ feedbackCalls'[id] = feedbackCalls[id] + 1
               /\ sessions[id] # Null
               /\ Val(sessions[id]).status = "in_progress"
               /\ Val(sessions[id]).questionIndex + 1 = Len(Val(sessions[id]).questions)
               /\ sessions'[id] # sessions[id] =>
                     /\ Val(sessions'[id]).status = "completed"
                     /\ Val(sessions'[id]).result # Null
                     /\ Val(sessions'[id]).questionIndex = Len(Val(sessions[id]).questions)
                     /\ Val(sessions'[id]).questionIndex = Val(sessions[id]).questionIndex + 1
               /\ sessions'[id] = sessions[id] => last' = last]_vars

C18_Witness ==
    \E id \in Stored :
       /\ feedbackCalls[id] = 2
       /\ Val(sessions[id]).status = "completed"
       /\ last.op = "SubmitAnswer"
       /\ FeedbackCallsIn(last.calls) = 1

\* C19 as stated: with submissions to a session overlapping, a session stored
\* with status completed stays stored with status completed and the same
\* result.
C19_CompletedIsFinalConcurrently ==
    [][\A id \in Stored :
         Val(sessions[id]).status = "completed" =>
            /\ Val(sessions'[id]).status = "completed"
            /\ Val(sessions'[id]).result = Val(sessions[id]).result]_vars

\* C20: with submissions to a session overlapping in any way, every stored
\* session has result non-null exactly when status is completed,
\* awaitingFollowUp true exactly when pendingFollowUpQuestion is non-null, and
\* questionIndex at most questions.length.
C20_StoredSnapshotsWellFormed ==
    \A id \in Stored :
       /\ (Val(sessions[id]).result # Null) <=> (Val(sessions[id]).status = "completed")
       /\ Val(sessions[id]).awaitingFollowUp
             <=> (Val(sessions[id]).pendingFollowUpQuestion # Null)
       /\ Val(sessions[id]).questionIndex <= Len(Val(sessions[id]).questions)

C20_Witness ==
    \E id \in Stored :
       /\ Val(sessions[id]).awaitingFollowUp
       /\ Val(sessions[id]).result = Null
       /\ \E session \in inflight :
             /\ session.id = id
             /\ session.status = "completed"
             /\ Len(session.turns) = Len(Val(sessions[id]).turns)

\* C21: a session of n questions is stored completed only after at least n and
\* at most 2n submissions to it succeeded, and is never in progress with 2n
\* behind it; it is completed exactly when questionIndex is n, so the
\* submission that brings questionIndex to n is the one that completes it; and
\* with a client that keeps submitting valid answers to services that do not
\* fail for ever, every session created is eventually completed.
C21_CompletesWithinTwiceQuestions ==
    /\ [](\A id \in Stored :
            (Val(sessions[id]).status = "in_progress" /\ submitted[id] < MaxAnswers)
               <=> \E input \in RequestsOn(id) :
                      \E done \in execute(sessions, input) : done.outcome.ok)
    /\ [][\A id \in SessionIds :
            submitted'[id] # submitted[id] =>
               /\ submitted'[id] = submitted[id] + 1
               /\ last'.op = "SubmitAnswer" /\ last'.sessionId = id
               /\ sessions'[id] # sessions[id]]_vars
    /\ [](\A id \in Stored :
            LET session == Val(sessions[id])
                n == Len(session.questions)
            IN /\ session.status = "completed" =>
                     (n <= submitted[id] /\ submitted[id] <= 2 * n)
               /\ session.status = "in_progress" => submitted[id] < 2 * n
               /\ (session.status = "completed") <=> (session.questionIndex = n))
    /\ \A id \in SessionIds :
          (sessions[id] # Null) ~>
             (sessions[id] # Null /\ Val(sessions[id]).status = "completed")

C21_Witness ==
    \E id \in Stored :
       /\ Val(sessions[id]).status = "completed"
       /\ Len(Val(sessions[id]).questions) = 3
       /\ submitted[id] = 6

\* C22: in every stored session turns.length is questionIndex, plus one while
\* the session awaits a follow-up answer; a submission that answers a question
\* adds exactly one turn and one that answers a follow-up adds none; so a
\* completed session has as many turns as questions.
C22_OneTurnPerQuestion ==
    /\ [](\A id \in Stored :
            LET session == Val(sessions[id]) IN
            /\ Len(session.turns) =
                  session.questionIndex + (IF session.awaitingFollowUp THEN 1 ELSE 0)
            /\ session.status = "completed" => Len(session.turns) = Len(session.questions))
    /\ [][\A id \in Stored :
            sessions'[id] # sessions[id] =>
               /\ submitted'[id] = submitted[id] + 1
               /\ Len(Val(sessions'[id]).turns) =
                     Len(Val(sessions[id]).turns)
                     + (IF Val(sessions[id]).awaitingFollowUp THEN 0 ELSE 1)]_vars

C22_Witness ==
    \E id \in Stored :
       /\ Val(sessions[id]).status = "completed"
       /\ Len(Val(sessions[id]).turns) = 3
       /\ submitted[id] = 5
       /\ Val(sessions[id]).turns[3].followUpAnswer # Null

\* C23: in every stored session in progress questionIndex is below
\* questions.length; so GetCurrentPrompt returns a prompt for it and never a
\* questionNumber above totalQuestions, and no submission to any stored
\* session ends in "No active question found for this session.".
C23_InProgressHasQuestion ==
    \A id \in Stored :
       LET session == Val(sessions[id])
           returned == GetCurrentPromptExecute(sessions, id)
       IN /\ session.status = "in_progress" =>
                /\ session.questionIndex < Len(session.questions)
                /\ returned.value.prompt # Null
          /\ returned.ok
          /\ returned.value.questionNumber >= 1
          /\ returned.value.questionNumber <= returned.value.totalQuestions
          /\ \A input \in RequestsOn(id) :
                \A done \in execute(sessions, input) :
                   done.outcome # ValidationError("No active question found for this session.")

C23_Witness ==
    \E id \in Stored :
       /\ Val(sessions[id]).status = "in_progress"
       /\ ~Val(sessions[id]).awaitingFollowUp
       /\ Val(sessions[id]).questionIndex = 2
       /\ GetCurrentPromptExecute(sessions, id).value.questionNumber = 3
       /\ GetCurrentPromptExecute(sessions, id).value.totalQuestions = 3
       /\ GetCurrentPromptExecute(sessions, id).value.prompt = Some(QUESTION_BANK[3])
       /\ \E input \in RequestsOn(id) :
             \E done \in execute(sessions, input) : done.outcome.ok

\* C24: in every stored session awaitingFollowUp is true exactly when the
\* last turn has a follow-up question and no follow-up answer; no earlier turn
\* has a follow-up question left unanswered; a turn has a follow-up answer, and
\* a follow-up delay, only with a follow-up question; in a completed session
\* every turn with a follow-up question has its answer and delay; and no
\* submission to any stored session ends in "Follow-up is not available for
\* this session state.".
C24_FollowUpsAnsweredInTurn ==
    \A id \in Stored :
       LET session == Val(sessions[id])
           turns == session.turns
           Asked(i) == turns[i].followUpQuestion # Null
           Answered(i) == turns[i].followUpAnswer # Null
       IN /\ session.awaitingFollowUp
                <=> (turns # <<>> /\ Asked(Len(turns)) /\ ~Answered(Len(turns)))
          /\ \A i \in 1 .. Len(turns) - 1 : Asked(i) => Answered(i)
          /\ \A i \in 1 .. Len(turns) :
                /\ Answered(i) => Asked(i)
                /\ Answered(i) <=> (turns[i].followUpResponseDelaySec # Null)
          /\ session.status = "completed" =>
                \A i \in 1 .. Len(turns) :
                   Asked(i) => (Answered(i) /\ turns[i].followUpResponseDelaySec # Null)
          /\ \A input \in RequestsOn(id) :
                \A done \in execute(sessions, input) :
                   done.outcome #
                      ValidationError("Follow-up is not available for this session state.")

C24_Witness ==
    \E id \in Stored :
       /\ Val(sessions[id]).awaitingFollowUp
       /\ Len(Val(sessions[id]).turns) = 3
       /\ Val(sessions[id]).turns[1].followUpAnswer # Null
       /\ Val(sessions[id]).turns[2].followUpQuestion = Null
       /\ Val(sessions[id]).turns[3].followUpQuestion # Null
       /\ Val(sessions[id]).turns[3].followUpAnswer = Null
       /\ \E input \in RequestsOn(id) :
             \E done \in execute(sessions, input) :
                done.outcome.ok /\ done.outcome.value.status = "completed"

\* C25: after a submission that succeeded, GetCurrentPrompt for that session
\* returns the status the submission returned, as promptType the promptType
\* it returned and as prompt the nextPrompt it returned.
C25_PromptAgreesWithSubmission ==
    last.op = "SubmitAnswer" =>
       LET current == GetCurrentPromptExecute(sessions, last.sessionId) IN
       /\ current.ok
       /\ current.value.sessionId = Returned.sessionId
       /\ current.value.status = Returned.status
       /\ current.value.promptType = Returned.promptType
       /\ current.value.prompt = Returned.nextPrompt

C25_Witness ==
    /\ last.op = "SubmitAnswer"
    /\ submitted[last.sessionId] = 2
    /\ Returned.promptType = "question"
    /\ Returned.nextPrompt = Some(QUESTION_BANK[2])
    /\ GetCurrentPromptExecute(sessions, last.sessionId).value.prompt = Some(QUESTION_BANK[2])
    /\ Val(sessions[last.sessionId]).turns[1].followUpAnswer # Null
    /\ \E input \in RequestsOn(last.sessionId) :
          \E done \in execute(sessions, input) :
             /\ done.outcome.ok
             /\ done.outcome.value.promptType = "follow_up"
             /\ GetCurrentPromptExecute(done.sessions, last.sessionId).value.promptType
                   = "follow_up"

\* C26: the result of a completed session carries as timingSummary what
\* computeTimingSummary gives for the turns stored with it, those recorded by
\* the completing submission included, whatever timing summary
\* generateFeedback returned, while corrections, improvedBestAnswer and
\* interviewTips are the ones it returned; totalTurns is questions.length plus
\* the number of turns with a follow-up.
C26_TimingSummaryComputedLocally ==
    /\ \A id \in Stored :
          Val(sessions[id]).status = "completed" =>
             LET session == Val(sessions[id])
                 timingSummary == Val(session.result).timingSummary
                 followedUp == {i \in 1 .. Len(session.turns) :
                                  session.turns[i].followUpQuestion # Null}
             IN /\ timingSummary = computeTimingSummary(session.turns)
                /\ timingSummary.totalTurns = Len(session.questions) + Cardinality(followedUp)
    /\ (last.op = "SubmitAnswer" /\ Returned.promptType = "completed") =>
          LET result == Val(Val(sessions[last.sessionId]).result)
              call == last.calls[Len(last.calls)]
          IN /\ call.service = "generateFeedback"
             /\ call.params.timingSummary = result.timingSummary
             /\ call.returned.value.corrections = result.corrections
             /\ call.returned.value.improvedBestAnswer = result.improvedBestAnswer
             /\ call.returned.value.interviewTips = result.interviewTips
             /\ Returned.result = Some(result)

C26_Witness ==
    /\ last.op = "SubmitAnswer"
    /\ Returned.promptType = "completed"
    /\ last.calls[Len(last.calls)].returned.value.timingSummary.totalTurns = 0
    /\ Len(Val(sessions[last.sessionId]).questions) = 2
    /\ Val(Returned.result).timingSummary.totalTurns = 4
    /\ Val(Returned.result).timingSummary.longPausesCount >= 1

C28_SubmitAnswerKeepsTheRest ==
    \A input \in SubmitAnswerInputs :
       \A done \in execute(sessions, input) :
          \A id \in SessionIds :
             /\ id # input.sessionId => done.sessions[id] = sessions[id]
             /\ sessions[id] = Null => done.sessions[id] = Null
             /\ sessions[id] # Null =>
                   /\ done.sessions[id] # Null
                   /\ LET before == Val(sessions[id])
                          after == Val(done.sessions[id])
                      IN /\ after.id = before.id
                         /\ after.createdAt = before.createdAt
                         /\ after.allowFollowUps = before.allowFollowUps
                         /\ after.questions = before.questions
                         /\ Len(after.turns) >= Len(before.turns)
                         /\ \A index \in 1 .. Len(before.turns) :
                               /\ after.turns[index].question = before.turns[index].question
                               /\ after.turns[index].answer = before.turns[index].answer
                               /\ after.turns[index].followUpQuestion
                                     = before.turns[index].followUpQuestion
                               /\ after.turns[index].mainResponseDelaySec
                                     = before.turns[index].mainResponseDelaySec

C28_Witness ==
    /\ last.op = "SubmitAnswer"
    /\ last.sessionId = 2
    /\ sessions[1] # Null
    /\ sessions[2] # Null
    /\ Len(Val(sessions[1]).turns) = 1
    /\ Val(sessions[1]).awaitingFollowUp
    /\ Len(Val(sessions[2]).turns) = 2
    /\ Val(sessions[2]).status = "completed"

\* C29: in every stored session the turn in position i records question i of
\* the session's questions; and whenever a submission calls generateFeedback,
\* whether the call succeeds or fails, the transcript it hands over has one
\* entry per turn, in turn order, numbered from 1, each entry carrying the
\* question, the answer and the follow-up of its turn (so one entry per
\* question of the session, entry i about question i).
C29_TurnsFollowQuestions ==
    /\ \A id \in Stored :
          LET session == Val(sessions[id]) IN
          /\ Len(session.turns) <= Len(session.questions)
          /\ \A index \in 1 .. Len(session.turns) :
                session.turns[index].question = session.questions[index]
    /\ \A input \in SubmitAnswerInputs :
          \A done \in execute(sessions, input) :
             \A position \in 1 .. Len(done.calls) :
                done.calls[position].service = "generateFeedback" =>
                   LET transcript == done.calls[position].params.transcript
                       before == Val(sessions[input.sessionId])
                       after == Val(done.sessions[input.sessionId])
                   IN /\ Len(transcript) = Len(before.questions)
                      /\ \A index \in 1 .. Len(transcript) :
                            /\ transcript[index].questionNumber = index
                            /\ transcript[index].question = before.questions[index]
                      /\ done.outcome.ok =>
                            /\ Len(transcript) = Len(after.turns)
                            /\ \A index \in 1 .. Len(transcript) :
                                  /\ transcript[index].question = after.turns[index].question
                                  /\ transcript[index].answer = after.turns[index].answer
                                  /\ transcript[index].followUpQuestion
                                        = after.turns[index].followUpQuestion
                                  /\ transcript[index].followUpAnswer
                                        = after.turns[index].followUpAnswer

C29_Witness ==
    /\ last.op = "SubmitAnswer"
    /\ Len(last.calls) >= 1
    /\ last.calls[Len(last.calls)].service = "generateFeedback"
    /\ Len(last.calls[Len(last.calls)].params.transcript) = 3
    /\ last.calls[Len(last.calls)].params.transcript[3].questionNumber = 3
    /\ last.calls[Len(last.calls)].params.transcript[3].question = QUESTION_BANK[3]
    /\ last.calls[Len(last.calls)].params.transcript[2].followUpAnswer # Null
    /\ Val(sessions[last.sessionId]).turns[3].question = QUESTION_BANK[3]

\* C30: CreateSession stores the session it returns, with questionIndex 0,
\* awaitingFollowUp false, pendingFollowUpQuestion null, no turn, no result,
\* status in_progress, and allowFollowUps as given, true when not given; and a
\* GetCurrentPrompt made right after it returns promptType question, the
\* first catalog question as prompt and questionNumber 1.
C30_NewSessionStartsAtFirstQuestion ==
    last.op = "CreateSession" =>
       LET session == Val(sessions[last.sessionId])
           current == GetCurrentPromptExecute(sessions, last.sessionId)
       IN /\ sessions[last.sessionId] # Null
          /\ last.outcome = Ok(session)
          /\ session.questionIndex = 0
          /\ session.awaitingFollowUp = FALSE
          /\ session.pendingFollowUpQuestion = Null
          /\ session.turns = <<>>
          /\ session.result = Null
          /\ session.status = "in_progress"
          /\ session.allowFollowUps = IF last.input.allowFollowUps = Null THEN TRUE
                                      ELSE Val(last.input.allowFollowUps)
          /\ current.ok
          /\ current.value.sessionId = session.id
          /\ current.value.status = "in_progress"
          /\ current.value.promptType = "question"
          /\ current.value.prompt = Some(QUESTION_BANK[1])
          /\ current.value.questionNumber = 1
          /\ current.value.totalQuestions = Len(session.questions)

C30_Witness ==
    /\ last.op = "CreateSession"
    /\ last.input.allowFollowUps = Null
    /\ last.input.questionCount = Null
    /\ Val(sessions[last.sessionId]).allowFollowUps
    /\ Val(sessions[last.sessionId]).questionIndex = 0
    /\ GetCurrentPromptExecute(sessions, last.sessionId).value.prompt = Some(QUESTION_BANK[1])

\* C31: a submission to a stored session with a negative responseDelaySec
\* ends in a ValidationError (the one about responseDelaySec when the session
\* is in progress) with no service called, transcription included, and the
\* repository as it was. A submission that succeeds records 0 when no
\* responseDelaySec was given, and otherwise a hundredth nearest to the value
\* given, unchanged when the value has at most two decimals: as
\* mainResponseDelaySec of the new turn for a main answer, as
\* followUpResponseDelaySec of the last turn for a follow-up answer.
C31_DelayNormalized ==
    \A id \in Stored :
       \A input \in DelayedRequestsOn(id) :
          \A done \in execute(sessions, input) :
             LET before == Val(sessions[id])
                 given == input.responseDelaySec
                 negative == given # Null /\ Val(given).finite /\ Val(given).ms < 0
             IN /\ negative =>
                      /\ ~done.outcome.ok
                      /\ done.outcome.error = "ValidationError"
                      /\ before.status = "in_progress" =>
                            done.outcome.message
                               = "responseDelaySec must be a non-negative number."
                      /\ done.calls = <<>>
                      /\ done.sessions = sessions
                /\ done.outcome.ok =>
                      LET turns == Val(done.sessions[id]).turns
                          recorded == IF before.awaitingFollowUp
                                      THEN turns[Len(turns)].followUpResponseDelaySec
                                      ELSE Some(turns[Len(turns)].mainResponseDelaySec)
                      IN /\ Len(turns) = Len(before.turns)
                                         + (IF before.awaitingFollowUp THEN 0 ELSE 1)
                         /\ recorded # Null
                         /\ given = Null => Val(recorded) = 0
                         /\ given # Null =>
                               /\ Val(given).finite
                               /\ Val(given).ms >= 0
                               /\ 10 * Val(recorded) - Val(given).ms \in -5 .. 5
                               /\ Val(given).ms % 10 = 0 =>
                                     10 * Val(recorded) = Val(given).ms

C31_Witness ==
    \E id \in Stored :
       /\ Val(sessions[id]).awaitingFollowUp
       /\ Val(sessions[id]).turns[1].mainResponseDelaySec = 600
       /\ \E input \in DelayedRequestsOn(id) :
             /\ input.responseDelaySec = Some(Millis(-1))
             /\ input.audioBase64 # Null
             /\ \E done \in execute(sessions, input) :
                   /\ done.outcome
                         = ValidationError("responseDelaySec must be a non-negative number.")
                   /\ done.calls = <<>>
       /\ \E input \in DelayedRequestsOn(id) :
             /\ input.responseDelaySec = Some(Millis(1005))
             /\ \E done \in execute(sessions, input) :
                   /\ done.outcome.ok
                   /\ Val(done.sessions[id]).turns[Len(Val(sessions[id]).turns)]
                         .followUpResponseDelaySec = Some(100)

\* C32 as stated: computeTimingSummary returns as avgResponseDelaySec, in
\* hundredths, round(sum / count) of the flattened delays, the integer nearest
\* to their mean and the larger one when the mean is halfway; it returns 0 with
\* totalTurns 0 and longPausesCount 0 when there are no turns, and 2.67 for the
\* delays [2.0], [5.0, 1.0].
C32_AverageIsRoundedMean ==
    last.op = "computeTimingSummary" =>
       LET delays == FlattenDelays(last.input) IN
       /\ last.input = <<>> =>
             /\ Returned.avgResponseDelaySec = 0
             /\ Returned.totalTurns = 0
             /\ Returned.longPausesCount = 0
       /\ delays # <<>> =>
             Returned.avgResponseDelaySec = RoundDiv(SumSeq(delays), Len(delays))
       /\ last.input = <<TimingTurn(200, Null), TimingTurn(500, Some(100))>> =>
             Returned.avgResponseDelaySec = 267

\* The position-th smallest element of a set of numbers.
NthOf(positions, position) ==
    CHOOSE p \in positions : Cardinality({q \in positions : q < p}) = position - 1

\* C33: the result stored for a completed session has at most 8 corrections,
\* each with an original, a corrected and a reason that are not blank, and at
\* most 3 interviewTips, none blank; and for a reply of the language model
\* with lists of any length, valid entries in any positions and malformed
\* entries of every kind in the others, generateFeedback returns the first 8
\* valid corrections (all of them when there are fewer) and the first 3 valid
\* tips, trimmed, in the order of the reply, and none when the reply has no
\* list.
C33_FeedbackListsBounded ==
    /\ \A id \in Stored :
          Val(sessions[id]).status = "completed" =>
             LET result == Val(Val(sessions[id]).result) IN
             /\ Len(result.corrections) <= 8
             /\ \A index \in 1 .. Len(result.corrections) :
                   /\ Trim(result.corrections[index].original) # ""
                   /\ Trim(result.corrections[index].corrected) # ""
                   /\ Trim(result.corrections[index].reason) # ""
             /\ Len(result.interviewTips) <= 3
             /\ \A index \in 1 .. Len(result.interviewTips) :
                   Trim(result.interviewTips[index]) # ""
    /\ last.op = "generateFeedback" =>
          LET shape == last.input
              kept == IF Cardinality(shape.valid) < 8 THEN Cardinality(shape.valid) ELSE 8
              keptTips == IF Cardinality(shape.validTips) < 3
                          THEN Cardinality(shape.validTips) ELSE 3
          IN /\ last.outcome.ok
             /\ Returned.corrections =
                   [ index \in 1 .. kept |->
                       LET position == NthOf(shape.valid, index) IN
                       [ original |-> "said " \o ToString(position),
                         corrected |-> IF position % 2 = 0 THEN ToString(position)
                                       ELSE "say " \o ToString(position),
                         reason |-> "reason " \o ToString(position) ] ]
             /\ Returned.interviewTips =
                   [ index \in 1 .. keptTips |->
                       LET position == NthOf(shape.validTips, index) IN
                       CASE position % 3 = 0 -> ToString(position)
                         [] position % 3 = 1 -> "tip " \o ToString(position)
                         [] OTHER -> "[object Object]" ]

C33_Witness ==
    \E id \in Stored :
       /\ Val(sessions[id]).status = "completed"
       /\ Len(Val(Val(sessions[id]).result).corrections) = 8
       /\ Val(Val(sessions[id]).result).corrections[2].original = "said 3"
       /\ Val(Val(sessions[id]).result).corrections[8].corrected = "10"
       /\ Val(Val(sessions[id]).result).interviewTips = <<"[object Object]", "3", "tip 4">>

====
